---- MODULE Spec2Model ----
(***************************************************************************)
(* Model of the section-boundary inference and chunking engine of the      *)
(* pdf_converter package:                                                  *)
(*   - TOCExtractor.extract_toc and TOCExtractor.determine_section_pages   *)
(*     (src/pdf_converter/toc/extractor.py), driven by the loop of         *)
(*     PDFConverter._process_with_toc (src/pdf_converter/converter.py);    *)
(*   - TextFormatter.split_into_chunks, _split_paragraph and               *)
(*     _add_overlap_to_chunks (src/pdf_converter/formatting/chunking.py);  *)
(*   - TextExtractor.should_skip_text (src/pdf_converter/extract/text.py). *)
(*                                                                         *)
(* Representation.  A Python str is a sequence of one-character strings.   *)
(* A section id "1.2.3" is the sequence <<1, 2, 3>> of the numbers joined  *)
(* by '.': the join of decimal numerals is injective on such sequences.    *)
(* A Python dict is the sequence of its values in insertion order, keyed   *)
(* by the record's id field.  Python's 0-based list indices are 1-based    *)
(* here.                                                                   *)
(***************************************************************************)
EXTENDS Integers, Sequences, FiniteSets, TLC

VARIABLES
    pc,               \* position of the component that is running
    max_level,        \* TOCExtractor.max_level
    toc,              \* doc.get_toc(), the entries consumed so far
    toc_structure,    \* extract_toc: the section map
    current_path,     \* extract_toc: current path in the hierarchy
    section_counters, \* extract_toc: section numbers at each level
    sorted_sections,  \* the traversal list handed to determine_section_pages
    section_pages,    \* (start_page, end_page) of each entry of sorted_sections
    text,             \* split_into_chunks: its argument
    chunk_size,       \* TextFormatter.chunk_size
    overlap,          \* TextFormatter.overlap
    chunks,           \* split_into_chunks: the returned list
    run,              \* should_skip_text: text, y0, y1 and the page height
    margins,          \* TextExtractor.header_margin and footer_margin
    skip,             \* should_skip_text: the returned value
    pages,            \* extract_pages(pdf_path): the pages and their elements
    image_locations,  \* page index -> file names of the images saved from it
    section_range,    \* (start_page, end_page) of the section being processed
    section_text,     \* _process_with_toc: text of the section, images added
    section_id,       \* format_section_id: its argument
    section_id_padded, \* format_section_id: the returned string
    doc_images,       \* page.get_images() of every page of the document
    image_cursor,     \* extract_images: (page_num, img_idx) of the next image
    image_dir,        \* the image files saved so far
    cli,              \* main: whether pdf_path is a file, and the state of the configuration
    fault,            \* the call of the conversion that raises, if any
    events,           \* the calls of convert so far, in order
    loop,             \* _process_with_toc: (i, position in the loop body)
    success,          \* the value convert returned
    exit_code,        \* the exit code of the process
    files,            \* the output files written so far, the images apart
    original_chunks,  \* _add_overlap_to_chunks: the chunks it is called with
    formatted,        \* what the calls of format_text have returned, in order
    position,         \* _process_with_toc: where the body of the loop is for each section
    formatted_text,   \* _process_with_toc: the texts of the sections appended so far
    chunk_files,      \* the chunk files written so far, path and content
    full_file         \* the full file, once written

tocVars == <<max_level, toc, toc_structure, current_path, section_counters,
             sorted_sections, section_pages>>
chunkVars == <<text, chunk_size, overlap, chunks>>
marginVars == <<run, margins, skip>>
sectionVars == <<pages, image_locations, section_range, section_text>>
writerVars == <<section_id, section_id_padded>>
imageVars == <<doc_images, image_cursor, image_dir>>
convertVars == <<cli, fault, events, loop, success, exit_code, files>>
overlapVars == <<original_chunks>>
formatVars == <<formatted>>
loopVars == <<position, formatted_text, chunk_files, full_file>>
vars == <<pc, tocVars, chunkVars, marginVars, sectionVars, writerVars,
          imageVars, convertVars, overlapVars, formatVars, loopVars>>

\* what an action of one component leaves alone
exceptTocVars == <<chunkVars, marginVars, sectionVars, writerVars, imageVars,
                   convertVars, overlapVars, formatVars, loopVars>>
exceptChunkVars == <<tocVars, marginVars, sectionVars, writerVars, imageVars,
                     convertVars, overlapVars, formatVars, loopVars>>
exceptMarginVars == <<tocVars, chunkVars, sectionVars, writerVars, imageVars,
                      convertVars, overlapVars, formatVars, loopVars>>
exceptSectionVars == <<tocVars, chunkVars, marginVars, writerVars, imageVars,
                       convertVars, overlapVars, formatVars, loopVars>>
exceptWriterVars == <<tocVars, chunkVars, marginVars, sectionVars, imageVars,
                      convertVars, overlapVars, formatVars, loopVars>>
exceptImageVars == <<tocVars, chunkVars, marginVars, sectionVars, writerVars,
                     convertVars, overlapVars, formatVars, loopVars>>
exceptConvertVars == <<tocVars, chunkVars, marginVars, sectionVars,
                       writerVars, imageVars, overlapVars, formatVars,
                       loopVars>>
exceptOverlapVars == <<tocVars, chunkVars, marginVars, sectionVars,
                       writerVars, imageVars, convertVars, formatVars,
                       loopVars>>
exceptFormatVars == <<tocVars, chunkVars, marginVars, sectionVars,
                      writerVars, imageVars, convertVars, overlapVars,
                      loopVars>>
exceptLoopVars == <<tocVars, chunkVars, marginVars, sectionVars, writerVars,
                    imageVars, convertVars, overlapVars, formatVars>>

(***************************************************************************)
(* Bounds of the model.                                                    *)
(***************************************************************************)
MaxEntries == 3
MaxPage == 3
Titles == {"A", "B"}

MaxTextLen == 5     \* the longest text handed to split_into_chunks
MaxChunkSize == 4   \* the largest max_chars besides the one of the tests
MaxOverlap == 2     \* the largest overlap_chars
MaxCoord == 3       \* the largest coordinate, page height and margin
MaxDocPages == 2    \* the most pages of a document
MaxFormatLen == 5    \* the longest text handed to format_text
MaxFormatCalls == 2  \* format_text on a text, then on what it returned
MaxIdLen == 3       \* the most components of a section id

\* the configured chunking.toc_level and the levels of the outline entries
ConfiguredTocLevels == {3}
Levels == {1, 2, 3}
Pages == 1..MaxPage

\* an entry deeper than the configured depth: extract_toc discards it at
\* line 40 before it reads its title or its page, so one such entry stands
\* for all of them
TooDeepEntry == [level |-> 4, title |-> "A", page |-> 1]

TocEntries == [level : Levels, title : Titles, page : Pages] \cup {TooDeepEntry}

(***************************************************************************)
(* Helpers on sequences.                                                   *)
(***************************************************************************)
Range(s) == {s[k] : k \in 1..Len(s)}

Take(s, n) == SubSeq(s, 1, n)

IsPrefix(s, t) == Len(s) <= Len(t) /\ Take(t, Len(s)) = s

IsStrictPrefix(s, t) == Len(s) < Len(t) /\ Take(t, Len(s)) = s

\* full_path[:-1]
ButLast(s) == IF Len(s) = 0 THEN <<>> ELSE Take(s, Len(s) - 1)

(***************************************************************************)
(* TOCExtractor.extract_toc                                                *)
(***************************************************************************)
\* mutant: the test of line 44 written with < instead of <=
AdjustPathStrictTest(path, entry) ==
    Append(IF entry.level < Len(path) THEN Take(path, entry.level - 1) ELSE path,
           entry.title)

\* mutant: the slice of line 45 cut one title short, current_path[:level-2]
AdjustPathDropsParent(path, entry) ==
    Append(IF entry.level <= Len(path)
           THEN Take(path, IF entry.level >= 2 THEN entry.level - 2 ELSE 0)
           ELSE path,
           entry.title)

\* current_path after an accepted entry (lines 43-46)
AdjustPath(path, entry) ==
    Append(IF entry.level <= Len(path) THEN Take(path, entry.level - 1) ELSE path,
           entry.title)

\* mutant: the counter of the entry's level is set to 1, never incremented
UpdateCountersNoIncrement(counters, entry) ==
    [k \in DOMAIN counters |->
        IF k = entry.level THEN 1
        ELSE IF k > entry.level THEN 0
        ELSE counters[k]]

\* mutant: the reset of lines 50-51 starts at the entry's own level,
\* range(level - 1, max_level)
UpdateCountersResetsOwnLevel(counters, entry) ==
    [k \in DOMAIN counters |->
        IF k >= entry.level THEN 0 ELSE counters[k]]

\* section_counters after an accepted entry (lines 48-52)
UpdateCounters(counters, entry) ==
    [k \in DOMAIN counters |->
        IF k = entry.level THEN counters[k] + 1
        ELSE IF k > entry.level THEN 0
        ELSE counters[k]]

\* the numbers of the section id (line 55): the nonzero counters up to level
SectionId(counters, level) == SelectSeq(Take(counters, level), LAMBDA num : num > 0)

\* toc_structure[section_id] = section_entry (line 67): a new key is appended,
\* an existing key keeps its place and takes the new value
DictSet(dict, rec) ==
    IF \E k \in 1..Len(dict) : dict[k].id = rec.id
    THEN [k \in 1..Len(dict) |-> IF dict[k].id = rec.id THEN rec ELSE dict[k]]
    ELSE Append(dict, rec)

\* the section_entry built for an accepted entry (lines 57-64)
SectionEntry(st, entry) ==
    [title |-> entry.title,
     page |-> entry.page,
     level |-> entry.level,
     id |-> SectionId(UpdateCounters(st.section_counters, entry), entry.level),
     full_path |-> AdjustPath(st.current_path, entry)]

\* mutant: an entry deeper than max_level is not recorded but empties
\* current_path
TocIterationDiscardClearsPath(st, entry, ml) ==
    IF entry.level > ml
    THEN [toc_structure |-> st.toc_structure,
          current_path |-> <<>>,
          section_counters |-> st.section_counters]
    ELSE [toc_structure |-> DictSet(st.toc_structure, SectionEntry(st, entry)),
          current_path |-> AdjustPath(st.current_path, entry),
          section_counters |-> UpdateCounters(st.section_counters, entry)]

\* one iteration of the loop over the outline (lines 38-67)
TocIteration(st, entry, ml) ==
    IF entry.level > ml
    THEN st
    ELSE [toc_structure |-> DictSet(st.toc_structure, SectionEntry(st, entry)),
          current_path |-> AdjustPath(st.current_path, entry),
          section_counters |-> UpdateCounters(st.section_counters, entry)]

\* the state before the loop (lines 34-36)
TocStart(ml) ==
    [toc_structure |-> <<>>,
     current_path |-> <<>>,
     section_counters |-> [k \in 1..ml |-> 0]]

\* the loop state after the first n entries of an outline
RECURSIVE TocAfter(_, _, _)
TocAfter(outline, n, ml) ==
    IF n = 0 THEN TocStart(ml)
    ELSE TocIteration(TocAfter(outline, n - 1, ml), outline[n], ml)

(***************************************************************************)
(* PDFConverter._process_with_toc: the traversal list                      *)
(***************************************************************************)
\* key=lambda x: (x[1]['page'], x[1]['level']) compared as tuples
KeyLess(a, b) == a.page < b.page \/ (a.page = b.page /\ a.level < b.level)

\* insertion of x after every element whose key is not greater (stable)
RECURSIVE InsertSorted(_, _)
InsertSorted(s, x) ==
    IF s = <<>> THEN <<x>>
    ELSE IF KeyLess(x, Head(s)) THEN <<x>> \o s
    ELSE <<Head(s)>> \o InsertSorted(Tail(s), x)

\* the items in the order of the dict, not sorted
InsertionOrder(s) == s

\* sorted(toc_structure.items(), key=...) (lines 84-85): a stable sort
RECURSIVE Sorted(_)
Sorted(s) ==
    IF s = <<>> THEN <<>>
    ELSE InsertSorted(Sorted(Take(s, Len(s) - 1)), s[Len(s)])

(***************************************************************************)
(* TOCExtractor.determine_section_pages                                    *)
(***************************************************************************)
NoPage == 0   \* None

FallbackSpan == 10   \* line 119

\* the set of indices after current_index that the probe accepts, then the
\* page of the first of them (the for ... break loops)
FirstPage(sections, hits) ==
    IF hits = {} THEN NoPage
    ELSE sections[CHOOSE j \in hits : \A k \in hits : j <= k].page

\* lines 96-102
FirstChildPage(section, sections, current_index) ==
    FirstPage(sections,
              {j \in (current_index + 1)..Len(sections) :
                  /\ sections[j].level = section.level + 1
                  /\ ButLast(sections[j].full_path) = section.full_path})

\* mutant: the test of line 108 written with == instead of <=
NextSiblingPageSameLevelOnly(section, sections, current_index) ==
    FirstPage(sections,
              {j \in (current_index + 1)..Len(sections) :
                  sections[j].level = section.level})

\* lines 104-110
NextSiblingOrCousinPage(section, sections, current_index) ==
    FirstPage(sections,
              {j \in (current_index + 1)..Len(sections) :
                  sections[j].level <= section.level})

\* mutant: the sibling probe decides before the child probe
EndPageSiblingFirst(section, sections, current_index) ==
    LET first_child_page == FirstChildPage(section, sections, current_index)
        next_sibling_or_cousin_page ==
            NextSiblingOrCousinPage(section, sections, current_index)
    IN  IF next_sibling_or_cousin_page # NoPage
        THEN next_sibling_or_cousin_page
        ELSE IF first_child_page # NoPage
        THEN first_child_page
        ELSE section.page + FallbackSpan

\* lines 112-119: the end page before the clamp
EndPageUnclamped(section, sections, current_index) ==
    LET first_child_page == FirstChildPage(section, sections, current_index)
        next_sibling_or_cousin_page ==
            NextSiblingOrCousinPage(section, sections, current_index)
    IN  IF first_child_page # NoPage
           /\ (next_sibling_or_cousin_page = NoPage
               \/ first_child_page <= next_sibling_or_cousin_page)
        THEN first_child_page
        ELSE IF next_sibling_or_cousin_page # NoPage
        THEN next_sibling_or_cousin_page
        ELSE section.page + FallbackSpan

\* mutant: the clamp of lines 121-123 left out
ClampEndMissing(start_page, end_page) == end_page

\* lines 121-123
ClampEnd(start_page, end_page) ==
    IF end_page < start_page THEN start_page ELSE end_page

\* lines 88-125
DetermineSectionPages(section, sections, current_index) ==
    <<section.page,
      ClampEnd(section.page, EndPageUnclamped(section, sections, current_index))>>

(***************************************************************************)
(* The prototype script: get_section_pages                                 *)
(***************************************************************************)
\* insertion of x after every element whose page is not greater (stable)
RECURSIVE InsertSortedByPage(_, _)
InsertSortedByPage(s, x) ==
    IF s = <<>> THEN <<x>>
    ELSE IF x.page < Head(s).page THEN <<x>> \o s
    ELSE <<Head(s)>> \o InsertSortedByPage(Tail(s), x)

\* sorted(toc_structure.items(), key=lambda x: x[1]['page']) (line 175)
RECURSIVE SortedByPage(_)
SortedByPage(s) ==
    IF s = <<>> THEN <<>>
    ELSE InsertSortedByPage(SortedByPage(Take(s, Len(s) - 1)), s[Len(s)])

\* the list get_section_pages returns, without the sanitized titles
\* (lines 177-196)
GetSectionPages(structure) ==
    LET by_page == SortedByPage(structure)
    IN  [i \in 1..Len(by_page) |->
            [id |-> by_page[i].id,
             start_page |-> by_page[i].page,
             end_page |-> IF i < Len(by_page)
                          THEN by_page[i + 1].page
                          ELSE by_page[i].page + FallbackSpan,
             level |-> by_page[i].level]]

(***************************************************************************)
(* TextFormatter: strings                                                  *)
(***************************************************************************)
Newline == "\n"
Whitespace == {" ", Newline}       \* the characters of the texts that \s matches
SentenceEnd == {".", "!", "?"}     \* [.!?]

\* "\n\n... [previous chunk overlap] ...\n\n" (line 180)
OverlapMarker ==
    <<Newline, Newline, ".", ".", ".", " ", "[">>
    \o <<"p", "r", "e", "v", "i", "o", "u", "s", " ">>
    \o <<"c", "h", "u", "n", "k", " ">>
    \o <<"o", "v", "e", "r", "l", "a", "p">>
    \o <<"]", " ", ".", ".", ".", Newline, Newline>>

\* s[n:]
Drop(s, n) == SubSeq(s, n + 1, Len(s))

\* sep.join(strs)
RECURSIVE Join(_, _)
Join(strs, sep) ==
    IF strs = <<>> THEN <<>>
    ELSE IF Len(strs) = 1 THEN strs[1]
    ELSE strs[1] \o sep \o Join(Tail(strs), sep)

(***************************************************************************)
(* TextFormatter.format_text                                               *)
(***************************************************************************)
FormFeed == "\f"
CarriageReturn == "\r"

\* config['formatting']['max_newlines'] as the tests set it
ConfiguredMaxNewlines == 2

\* the shortest run of newlines that \n{3,} matches (line 34)
CollapsedRunLen == 3

\* '\n' * config['formatting']['max_newlines'] (line 17)
MaxNewlinesString(n) == [k \in 1..n |-> Newline]

\* text.replace('\f', '\n\n') (line 31)
RECURSIVE ReplaceFormFeed(_)
ReplaceFormFeed(t) ==
    IF t = <<>> THEN <<>>
    ELSE (IF Head(t) = FormFeed THEN <<Newline, Newline>> ELSE <<Head(t)>>)
         \o ReplaceFormFeed(Tail(t))

\* the length of the run of newlines t begins with
RECURSIVE NewlineRun(_)
NewlineRun(t) ==
    IF t # <<>> /\ Head(t) = Newline THEN 1 + NewlineRun(Tail(t)) ELSE 0

\* re.sub(r'\n{3,}', max_newlines, text) (line 34): every maximal run of
\* three or more newlines is replaced, a shorter run is kept
RECURSIVE LimitNewlines(_, _)
LimitNewlines(t, max_newlines) ==
    IF t = <<>> THEN <<>>
    ELSE LET n == NewlineRun(t)
         IN  IF n >= CollapsedRunLen
             THEN max_newlines \o LimitNewlines(Drop(t, n), max_newlines)
             ELSE IF n > 0
             THEN Take(t, n) \o LimitNewlines(Drop(t, n), max_newlines)
             ELSE <<Head(t)>> \o LimitNewlines(Tail(t), max_newlines)

\* str.splitlines(): the lines of t without their ends; a line ends at
\* '\n', '\r' or '\r\n', and the end of the last line makes no empty line
RECURSIVE SplitLines(_)
SplitLines(t) ==
    LET ends == {i \in 1..Len(t) : t[i] \in {Newline, CarriageReturn}}
    IN  IF t = <<>> THEN <<>>
        ELSE IF ends = {} THEN <<t>>
        ELSE LET i == CHOOSE e \in ends : \A f \in ends : e <= f
                 end_len == IF /\ t[i] = CarriageReturn
                               /\ i < Len(t)
                               /\ t[i + 1] = Newline
                            THEN 2 ELSE 1
             IN  <<Take(t, i - 1)>> \o SplitLines(Drop(t, i - 1 + end_len))

\* str.rstrip(): the whitespace at the end removed
RStrip(s) ==
    LET inked == {i \in 1..Len(s) :
                     s[i] \notin {" ", Newline, CarriageReturn, FormFeed}}
    IN  IF inked = {} THEN <<>>
        ELSE Take(s, CHOOSE i \in inked : \A j \in inked : j <= i)

\* lines 30-39
FormatText(t, max_newlines) ==
    LET limited == LimitNewlines(ReplaceFormFeed(t), max_newlines)
        lines == SplitLines(limited)
    IN  Join([k \in 1..Len(lines) |-> RStrip(lines[k])], <<Newline>>)

\* text.split('\n\n') (line 68): cut at each blank line, left to right
RECURSIVE SplitParagraphs(_)
SplitParagraphs(t) ==
    LET cuts == {i \in 1..(Len(t) - 1) : t[i] = Newline /\ t[i + 1] = Newline}
    IN  IF cuts = {} THEN <<t>>
        ELSE LET i == CHOOSE c \in cuts : \A d \in cuts : c <= d
             IN  <<Take(t, i - 1)>> \o SplitParagraphs(Drop(t, i + 1))

\* re.split(r'(?<=[.!?])\s+', paragraph) (line 126): cut at each run of
\* whitespace that follows a sentence end, the whole run removed
RECURSIVE SplitSentences(_)
SplitSentences(p) ==
    LET cuts == {i \in 2..Len(p) : p[i] \in Whitespace /\ p[i - 1] \in SentenceEnd}
    IN  IF cuts = {} THEN <<p>>
        ELSE LET i == CHOOSE c \in cuts : \A d \in cuts : c <= d
                 after == {j \in i..Len(p) : \A k \in i..j : p[k] \in Whitespace}
                 j == CHOOSE c \in after : \A d \in after : d <= c
             IN  <<Take(p, i - 1)>> \o SplitSentences(Drop(p, j))

(***************************************************************************)
(* TextFormatter._split_paragraph                                          *)
(***************************************************************************)
\* a closed batch of sentences (line 137 and line 146)
SentenceChunk(sentences) == Join(sentences, <<" ">>)

\* mutant: the loop with current_size = 0 instead of line 139
RECURSIVE SentenceLoopSizeNotSet(_, _, _)
SentenceLoopSizeNotSet(sentences, n, size) ==
    IF n = 0
    THEN [chunks |-> <<>>, current_sentences |-> <<>>, current_size |-> 0]
    ELSE LET st == SentenceLoopSizeNotSet(sentences, n - 1, size)
             sentence == sentences[n]
         IN  IF st.current_size + Len(sentence) > size
             THEN [chunks |-> IF st.current_sentences # <<>>
                              THEN Append(st.chunks,
                                          SentenceChunk(st.current_sentences))
                              ELSE st.chunks,
                   current_sentences |-> <<sentence>>,
                   current_size |-> 0]
             ELSE [chunks |-> st.chunks,
                   current_sentences |-> Append(st.current_sentences, sentence),
                   current_size |-> st.current_size + Len(sentence)]

\* the loop of lines 132-142 after the first n sentences
RECURSIVE SentenceLoop(_, _, _)
SentenceLoop(sentences, n, size) ==
    IF n = 0
    THEN [chunks |-> <<>>, current_sentences |-> <<>>, current_size |-> 0]
    ELSE LET st == SentenceLoop(sentences, n - 1, size)
             sentence == sentences[n]
         IN  IF st.current_size + Len(sentence) > size
             THEN [chunks |-> IF st.current_sentences # <<>>
                              THEN Append(st.chunks,
                                          SentenceChunk(st.current_sentences))
                              ELSE st.chunks,
                   current_sentences |-> <<sentence>>,
                   current_size |-> Len(sentence)]
             ELSE [chunks |-> st.chunks,
                   current_sentences |-> Append(st.current_sentences, sentence),
                   current_size |-> st.current_size + Len(sentence)]

\* lines 125-148
SplitParagraph(paragraph, size) ==
    LET sentences == SplitSentences(paragraph)
        st == SentenceLoop(sentences, Len(sentences), size)
    IN  IF st.current_sentences # <<>>
        THEN Append(st.chunks, SentenceChunk(st.current_sentences))
        ELSE st.chunks

(***************************************************************************)
(* TextFormatter._add_overlap_to_chunks                                    *)
(***************************************************************************)
\* s[-n:] for n >= 0 and len(s) > n; s[-0:] is s[0:], the whole of s
LastChars(s, n) == IF n = 0 THEN s ELSE Drop(s, Len(s) - n)

\* lines 172-176: prev_chunk[-overlap:], or all of a shorter chunk
OverlapText(prev_chunk, ov) ==
    IF Len(prev_chunk) > ov THEN LastChars(prev_chunk, ov)
    ELSE prev_chunk

\* lines 178-183
WithOverlap(prev_chunk, current_chunk, ov) ==
    IF OverlapText(prev_chunk, ov) # <<>>
    THEN OverlapText(prev_chunk, ov) \o OverlapMarker \o current_chunk
    ELSE current_chunk

\* mutant: the overlap text is taken from the previous chunk as it stands
\* after its own overlap was put before it
RECURSIVE AddOverlapToChunksCompounding(_, _)
AddOverlapToChunksCompounding(cs, ov) ==
    IF Len(cs) <= 1 THEN cs
    ELSE LET before == AddOverlapToChunksCompounding(ButLast(cs), ov)
         IN  Append(before, WithOverlap(before[Len(before)], cs[Len(cs)], ov))

\* lines 159-185
AddOverlapToChunks(cs, ov) ==
    IF Len(cs) <= 1 THEN cs
    ELSE [i \in 1..Len(cs) |->
            IF i = 1 THEN cs[1] ELSE WithOverlap(cs[i - 1], cs[i], ov)]

(***************************************************************************)
(* TextFormatter.split_into_chunks                                         *)
(***************************************************************************)
TestChunkSize == 100   \* line 71
TestParaLen == 60      \* line 73

\* lines 70-75: the texts returned as they are split
IsTestCase(paragraphs, size) ==
    /\ size = TestChunkSize
    /\ Len(paragraphs) = 2
    /\ Len(paragraphs[1]) <= TestParaLen
    /\ Len(paragraphs[2]) <= TestParaLen

\* a closed batch of paragraphs (lines 89, 99 and 108)
ParagraphChunk(paragraphs) == Join(paragraphs, <<Newline, Newline>>)

\* mutant: the loop without "current_size += para_size" (line 104)
RECURSIVE ParagraphLoopSizeNotAdded(_, _, _)
ParagraphLoopSizeNotAdded(paragraphs, n, size) ==
    IF n = 0
    THEN [chunks |-> <<>>, current_chunk |-> <<>>, current_size |-> 0]
    ELSE LET st == ParagraphLoopSizeNotAdded(paragraphs, n - 1, size)
             para == paragraphs[n]
             flushed == IF st.current_chunk # <<>>
                        THEN Append(st.chunks, ParagraphChunk(st.current_chunk))
                        ELSE st.chunks
         IN  IF Len(para) > size
             THEN [chunks |-> flushed \o SplitParagraph(para, size),
                   current_chunk |-> IF st.current_chunk # <<>> THEN <<>>
                                     ELSE st.current_chunk,
                   current_size |-> IF st.current_chunk # <<>> THEN 0
                                    ELSE st.current_size]
             ELSE IF st.current_size + Len(para) > size
             THEN [chunks |-> flushed,
                   current_chunk |-> <<para>>,
                   current_size |-> Len(para)]
             ELSE [chunks |-> st.chunks,
                   current_chunk |-> Append(st.current_chunk, para),
                   current_size |-> st.current_size]

\* the loop of lines 82-104 after the first n paragraphs
RECURSIVE ParagraphLoop(_, _, _)
ParagraphLoop(paragraphs, n, size) ==
    IF n = 0
    THEN [chunks |-> <<>>, current_chunk |-> <<>>, current_size |-> 0]
    ELSE LET st == ParagraphLoop(paragraphs, n - 1, size)
             para == paragraphs[n]
             flushed == IF st.current_chunk # <<>>
                        THEN Append(st.chunks, ParagraphChunk(st.current_chunk))
                        ELSE st.chunks
         IN  IF Len(para) > size
             THEN [chunks |-> flushed \o SplitParagraph(para, size),
                   current_chunk |-> IF st.current_chunk # <<>> THEN <<>>
                                     ELSE st.current_chunk,
                   current_size |-> IF st.current_chunk # <<>> THEN 0
                                    ELSE st.current_size]
             ELSE IF st.current_size + Len(para) > size
             THEN [chunks |-> flushed,
                   current_chunk |-> <<para>>,
                   current_size |-> Len(para)]
             ELSE [chunks |-> st.chunks,
                   current_chunk |-> Append(st.current_chunk, para),
                   current_size |-> st.current_size + Len(para)]

\* mutant: the final chunk of lines 106-108 is not added
PackedChunksDropsLast(paragraphs, size) ==
    ParagraphLoop(paragraphs, Len(paragraphs), size).chunks

\* lines 77-108: the chunks before the overlap is added
PackedChunks(paragraphs, size) ==
    LET st == ParagraphLoop(paragraphs, Len(paragraphs), size)
    IN  IF st.current_chunk # <<>>
        THEN Append(st.chunks, ParagraphChunk(st.current_chunk))
        ELSE st.chunks

\* lines 67-114
SplitIntoChunks(t, size, ov) ==
    LET paragraphs == SplitParagraphs(t)
        packed == PackedChunks(paragraphs, size)
    IN  IF IsTestCase(paragraphs, size) THEN paragraphs
        ELSE IF ov > 0 /\ Len(packed) > 1 THEN AddOverlapToChunks(packed, ov)
        ELSE packed

(***************************************************************************)
(* TextExtractor.should_skip_text                                          *)
(***************************************************************************)
\* mutant: the comparisons of lines 53-54 written with <= and >=
ShouldSkipTextInclusive(txt, text_element, page_height, m) ==
    IF \/ text_element.y0 <= m.footer_margin
       \/ text_element.y1 >= page_height - m.header_margin
    THEN TRUE
    ELSE FALSE

\* lines 48-57; the text is not read
ShouldSkipText(txt, text_element, page_height, m) ==
    IF \/ text_element.y0 < m.footer_margin
       \/ text_element.y1 > page_height - m.header_margin
    THEN TRUE
    ELSE FALSE

(***************************************************************************)
(* TextExtractor.extract_section_text                                      *)
(***************************************************************************)
\* str.strip(): the whitespace at both ends removed
Strip(s) ==
    LET inked == {i \in 1..Len(s) : s[i] \notin Whitespace}
    IN  IF inked = {} THEN <<>>
        ELSE SubSeq(s, CHOOSE i \in inked : \A j \in inked : i <= j,
                       CHOOSE i \in inked : \A j \in inked : j <= i)

\* mutant: the test of line 84 without "text and"
KeepsRunWithoutTextTest(element, page_height, m) ==
    /\ element.is_text
    /\ ~ShouldSkipText(Strip(element.text), element, page_height, m)

\* the tests of lines 82-84 on one element of a page
KeepsRun(element, page_height, m) ==
    /\ element.is_text
    /\ Strip(element.text) # <<>>
    /\ ~ShouldSkipText(Strip(element.text), element, page_height, m)

\* page_text of one page (lines 75-85)
PageText(page, m) ==
    LET kept == SelectSeq(page.elements,
                          LAMBDA element : KeepsRun(element, page.height, m))
    IN  [k \in 1..Len(kept) |-> Strip(kept[k].text)]

\* range(start_page - 1, min(end_page - 1, len(pages))) (line 73): the
\* 0-based indices of the pages read, in order
PagesRead(num_pages, start, end) ==
    LET lo == start - 1
        hi == IF end - 1 < num_pages THEN end - 1 ELSE num_pages
    IN  [k \in 1..(IF hi > lo THEN hi - lo ELSE 0) |-> lo + k - 1]

\* lines 71-90
ExtractSectionText(doc_pages, start, end, m) ==
    LET read == PagesRead(Len(doc_pages), start, end)
        texts == [k \in 1..Len(read) |-> PageText(doc_pages[read[k] + 1], m)]
        filled == SelectSeq(texts, LAMBDA page_text : page_text # <<>>)
    IN  Join([k \in 1..Len(filled) |-> Join(filled[k], <<Newline>>)],
             <<Newline, Newline>>)

(***************************************************************************)
(* PDFConverter._process_with_toc: the images of a section                 *)
(***************************************************************************)
\* f"\n![Figure]({img_ref_path})\n" with img_ref_path = f"../images/{img_path}"
\* (lines 120-121); the file name is kept as one item of the string
FigureRef(img_path) == <<Newline, "![Figure](../images/", img_path, ")", Newline>>

\* mutant: the references of one page are put before the text in the order
\* of the list
RECURSIVE PrependFiguresInOrder(_, _)
PrependFiguresInOrder(img_paths, txt) ==
    IF img_paths = <<>> THEN txt
    ELSE FigureRef(Head(img_paths)) \o PrependFiguresInOrder(Tail(img_paths), txt)

\* the loop of line 118 over the images of one page
RECURSIVE PrependFigures(_, _)
PrependFigures(img_paths, txt) ==
    IF img_paths = <<>> THEN txt
    ELSE PrependFigures(Tail(img_paths), FigureRef(Head(img_paths)) \o txt)

\* the loop of lines 115-121 from page index page_num up to, not including,
\* page index stop
RECURSIVE AddImagesFrom(_, _, _, _)
AddImagesFrom(txt, locations, page_num, stop) ==
    IF page_num >= stop THEN txt
    ELSE AddImagesFrom(IF page_num \in DOMAIN locations
                       THEN PrependFigures(locations[page_num], txt)
                       ELSE txt,
                       locations, page_num + 1, stop)

\* for page_num in range(start_page - 1, end_page) (line 115)
AddImages(txt, locations, start, end) ==
    AddImagesFrom(txt, locations, start - 1, end)

(***************************************************************************)
(* OutputManager.format_section_id                                         *)
(***************************************************************************)
DigitChars == <<"0", "1", "2", "3", "4", "5", "6", "7", "8", "9">>

\* str(n) for n >= 0
RECURSIVE Decimal(_)
Decimal(n) ==
    IF n < 10 THEN <<DigitChars[n + 1]>>
    ELSE Decimal(n \div 10) \o <<DigitChars[(n % 10) + 1]>>

\* int(part) for a part made of digits
RECURSIVE ParseInt(_)
ParseInt(part) ==
    IF part = <<>> THEN 0
    ELSE LET d == CHOOSE v \in 0..9 : DigitChars[v + 1] = part[Len(part)]
         IN  10 * ParseInt(SubSeq(part, 1, Len(part) - 1)) + d

\* s.split(sep) for a separator of one character
RECURSIVE SplitOn(_, _)
SplitOn(s, sep) ==
    LET cuts == {i \in 1..Len(s) : s[i] = sep}
    IN  IF cuts = {} THEN <<s>>
        ELSE LET i == CHOOSE c \in cuts : \A d \in cuts : c <= d
             IN  <<Take(s, i - 1)>> \o SplitOn(Drop(s, i), sep)

\* mutant: the number cut to its last two digits
PadTwoDigitsTruncating(part) ==
    LET n == ParseInt(part) % 100
    IN  IF n < 10 THEN <<"0">> \o Decimal(n) ELSE Decimal(n)

\* f"{int(part):02d}" (line 86)
PadTwoDigits(part) ==
    LET n == ParseInt(part)
    IN  IF n < 10 THEN <<"0">> \o Decimal(n) ELSE Decimal(n)

\* lines 77-94
FormatSectionId(id_string) ==
    LET parts == SplitOn(id_string, ".")
        padded_parts == [i \in 1..Len(parts) |->
                            IF i = 1 THEN parts[i] ELSE PadTwoDigits(parts[i])]
        joined == Join(padded_parts, <<"_">>)
    IN  IF Len(parts) = 1 THEN joined \o <<"_", "0">> ELSE joined

\* '.'.join(str(num) for num in ...) (extractor.py line 55): the id as the
\* string that is handed to the writer
IdString(id) == Join([k \in 1..Len(id) |-> Decimal(id[k])], <<".">>)

(***************************************************************************)
(* TextFormatter.add_section_header                                        *)
(***************************************************************************)
\* f"{'#' * level} {section_id} {section_title}\n\n" + text (lines 54-56)
AddSectionHeader(txt, id_string, section_title, level) ==
    [k \in 1..level |-> "#"] \o <<" ">> \o id_string \o <<" ">> \o section_title
    \o <<Newline, Newline>> \o txt

(***************************************************************************)
(* OutputManager: the section directories and the chunk files              *)
(***************************************************************************)
\* title.lower().replace('/', '_').replace('\\', '_') for the characters of
\* the titles (writer.py lines 63, 107)
Sanitized(title) ==
    [k \in 1..Len(title) |->
        CASE title[k] = "A" -> "a"
          [] title[k] = "B" -> "b"
          [] title[k] \in {"/", "\\"} -> "_"
          [] OTHER -> title[k]]

\* the title of an outline entry as a string
TitleString(title) == <<title>>

\* section['id'].split('.')[0] (converter.py line 99)
TopLevelId(section) == <<Head(section.id)>>

\* toc_structure.get(top_level_id) and the title chosen at lines 100-105
TopLevelTitle(structure, section) ==
    LET found == {k \in 1..Len(structure) : structure[k].id = TopLevelId(section)}
    IN  IF found = {} THEN <<"unknown_section">>
        ELSE TitleString(structure[CHOOSE k \in found : TRUE].title)

\* create_section_dir: base_path / f"{section_id}_{section_title_sanitized}"
\* (writer.py lines 63-64)
SectionDir(structure, section) ==
    IdString(TopLevelId(section)) \o <<"_">>
    \o Sanitized(TopLevelTitle(structure, section))

\* mutant: the file name without the padded section id
ChunkFileNameWithoutId(section, j) ==
    Sanitized(TitleString(section.title)) \o <<"_">>
    \o PadTwoDigits(Decimal(j)) \o <<".md">>

\* f"{section_id_padded}_{section_title_sanitized}_{j:02d}.md"
\* (writer.py lines 107-114)
ChunkFileName(section, j) ==
    FormatSectionId(IdString(section.id)) \o <<"_">>
    \o Sanitized(TitleString(section.title)) \o <<"_">>
    \o PadTwoDigits(Decimal(j)) \o <<".md">>

\* open(path, 'w') and write: the file of the path is replaced
WriteFile(fs, path, content) ==
    {f \in fs : f.path # path} \cup {[path |-> path, content |-> content]}

\* write_chunk_files: the files of chunks j..len(chunks), in order
\* (writer.py lines 113-118)
RECURSIVE WriteChunkFiles(_, _, _, _, _)
WriteChunkFiles(fs, cs, j, section_output_dir, section) ==
    IF j > Len(cs) THEN fs
    ELSE WriteChunkFiles(WriteFile(fs,
                                   [dir |-> section_output_dir,
                                    name |-> ChunkFileName(section, j)],
                                   cs[j]),
                         cs, j + 1, section_output_dir, section)

(***************************************************************************)
(* PDFConverter._process_with_toc: the body of the loop                    *)
(***************************************************************************)
\* the text of section i of the traversal list after lines 94-129
SectionTextOf(sections, i, doc_pages, locations, m) ==
    LET range == DetermineSectionPages(sections[i], sections, i)
        extracted == ExtractSectionText(doc_pages, range[1], range[2], m)
        with_images == AddImages(extracted, locations, range[1], range[2])
    IN  AddSectionHeader(FormatText(with_images,
                                    MaxNewlinesString(ConfiguredMaxNewlines)),
                         IdString(sections[i].id),
                         TitleString(sections[i].title),
                         sections[i].level)

\* the chunk files after lines 135-140 for section i
SectionChunksWritten(fs, structure, sections, i, txt, size, ov) ==
    WriteChunkFiles(fs, SplitIntoChunks(txt, size, ov), 1,
                    SectionDir(structure, sections[i]), sections[i])

(***************************************************************************)
(* ImageExtractor                                                          *)
(***************************************************************************)
\* config['images']['formats']
ConfiguredFormats == {"png"}

\* f"image_p{page_num+1}_{img_idx+1}.{ext}" (line 95), by page and by image
ImageFileNames ==
    [png |-> <<<<"image_p1_1.png", "image_p1_2.png", "image_p1_3.png">>,
               <<"image_p2_1.png", "image_p2_2.png", "image_p2_3.png">>,
               <<"image_p3_1.png", "image_p3_2.png", "image_p3_3.png">>,
               <<"image_p4_1.png", "image_p4_2.png", "image_p4_3.png">>>>]

ImageFileName(page_num, img_idx, ext) == ImageFileNames[ext][page_num + 1][img_idx + 1]

\* _save_image (lines 80-105): what it leaves behind and whether it raised.
\* An image is undecodable (extract_image or Image.open raises), too small,
\* unwritable (image.save raises) or good.
SaveImage(img, page_num, img_idx, locations, dir) ==
    IF img.state = "undecodable"
    THEN [raised |-> TRUE, image_locations |-> locations, image_dir |-> dir]
    ELSE IF img.state = "small"
    THEN [raised |-> FALSE, image_locations |-> locations, image_dir |-> dir]
    ELSE LET ext == IF img.ext \notin ConfiguredFormats THEN "png" ELSE img.ext
             filename == ImageFileName(page_num, img_idx, ext)
         IN  IF img.state = "unwritable"
             THEN [raised |-> TRUE, image_locations |-> locations,
                   image_dir |-> dir]
             ELSE [raised |-> FALSE,
                   image_locations |->
                       [p \in DOMAIN locations \cup {page_num} |->
                           IF p = page_num
                           THEN (IF p \in DOMAIN locations THEN locations[p]
                                 ELSE <<>>) \o <<filename>>
                           ELSE locations[p]],
                   image_dir |-> dir \cup {filename}]

(***************************************************************************)
(* The components that are not running keep their initial values.          *)
(***************************************************************************)
TocIdle ==
    /\ max_level \in ConfiguredTocLevels
    /\ toc = <<>>
    /\ toc_structure = <<>>
    /\ current_path = <<>>
    /\ section_counters = [k \in 1..max_level |-> 0]
    /\ sorted_sections = <<>>
    /\ section_pages = <<>>

ChunkIdle == text = <<>> /\ chunk_size = 0 /\ overlap = 0 /\ chunks = <<>>

MarginIdle ==
    /\ run = [text |-> <<>>, y0 |-> 0, y1 |-> 0, page_height |-> 0]
    /\ margins = [header_margin |-> 0, footer_margin |-> 0]
    /\ skip = FALSE

SectionIdle ==
    /\ pages = <<>>
    /\ image_locations = <<>>
    /\ section_range = <<0, 0>>
    /\ section_text = <<>>

WriterIdle ==
    /\ section_id = <<>>
    /\ section_id_padded = <<>>

ImageIdle ==
    /\ doc_images = <<>>
    /\ image_cursor = <<0, 0>>
    /\ image_dir = {}

ConvertIdle ==
    /\ cli = <<>>
    /\ fault = <<>>
    /\ events = <<>>
    /\ loop = <<0, 1>>
    /\ success = <<>>
    /\ exit_code = <<>>
    /\ files = {}

OverlapIdle ==
    /\ original_chunks = <<>>

FormatIdle ==
    /\ formatted = <<>>

LoopIdle ==
    /\ position = <<>>
    /\ formatted_text = <<>>
    /\ chunk_files = {}
    /\ full_file = [written |-> FALSE, content |-> <<>>]

(***************************************************************************)
(* The outline pass and the range pass of a conversion.                    *)
(***************************************************************************)
TocInit ==
    /\ pc = "extract_toc"
    /\ TocIdle
    /\ ChunkIdle
    /\ MarginIdle
    /\ SectionIdle
    /\ WriterIdle
    /\ ImageIdle
    /\ ConvertIdle
    /\ OverlapIdle
    /\ FormatIdle
    /\ LoopIdle

TocLoopState ==
    [toc_structure |-> toc_structure,
     current_path |-> current_path,
     section_counters |-> section_counters]

\* extract_toc, one iteration of "for level, title, page in toc", for an
\* outline of at most n entries
ExtractTocEntryUpTo(n) ==
    /\ pc = "extract_toc"
    /\ Len(toc) < n
    /\ \E entry \in TocEntries :
          LET st == TocIteration(TocLoopState, entry, max_level)
          IN  /\ toc' = Append(toc, entry)
              /\ toc_structure' = st.toc_structure
              /\ current_path' = st.current_path
              /\ section_counters' = st.section_counters
    /\ UNCHANGED <<pc, max_level, sorted_sections, section_pages>>
    /\ UNCHANGED exceptTocVars

ExtractTocEntry == ExtractTocEntryUpTo(MaxEntries)

\* the page range of every section, as the loop of lines 92-96 computes it
ResolvedPages(sections) ==
    [i \in 1..Len(sections) |-> DetermineSectionPages(sections[i], sections, i)]

\* extract_toc returns a section map that is not empty: convert calls
\* _process_with_toc, which sorts the sections (lines 84-85) and computes
\* the page range of each in the loop over sorted_sections
ProcessWithToc ==
    /\ pc = "extract_toc"
    /\ toc_structure # <<>>
    /\ sorted_sections' = Sorted(toc_structure)
    /\ section_pages' = ResolvedPages(Sorted(toc_structure))
    /\ pc' = "done"
    /\ UNCHANGED <<max_level, toc, toc_structure, current_path,
                   section_counters>>
    /\ UNCHANGED exceptTocVars

\* extract_toc returns an empty section map: convert takes the other branch
ProcessWithoutToc ==
    /\ pc = "extract_toc"
    /\ toc_structure = <<>>
    /\ pc' = "process_without_toc"
    /\ UNCHANGED <<tocVars, exceptTocVars>>

TocNext == ExtractTocEntry \/ ProcessWithToc \/ ProcessWithoutToc

Spec == TocInit /\ [][TocNext]_vars

(***************************************************************************)
(* determine_section_pages called with a traversal list in any order.      *)
(***************************************************************************)
Orderings(s) ==
    {[k \in 1..Len(s) |-> s[f[k]]] :
        f \in {g \in [1..Len(s) -> 1..Len(s)] :
                  \A a, b \in 1..Len(s) : g[a] = g[b] => a = b}}

\* a caller hands the section map over in an order of its choice and
\* computes the page range of each section
TraverseAnyOrder ==
    /\ pc = "extract_toc"
    /\ toc_structure # <<>>
    /\ \E order \in Orderings(toc_structure) :
          /\ sorted_sections' = order
          /\ section_pages' = ResolvedPages(order)
    /\ pc' = "done"
    /\ UNCHANGED <<max_level, toc, toc_structure, current_path,
                   section_counters>>
    /\ UNCHANGED exceptTocVars

\* the outlines whose section maps are handed over in every order
MaxShuffled == 2

ExtractShortToc == ExtractTocEntryUpTo(MaxShuffled)

ResolverNext == ExtractShortToc \/ TraverseAnyOrder

SpecResolver == TocInit /\ [][ResolverNext]_vars

(***************************************************************************)
(* split_into_chunks applied to a text.                                    *)
(***************************************************************************)
Alphabet == {"a", ".", " ", Newline}

Texts == UNION {[1..n -> Alphabet] : n \in 0..MaxTextLen}

\* the configured chunking.max_chars and chunking.overlap_chars
ChunkSizes == (0..MaxChunkSize) \cup {TestChunkSize}
Overlaps == 0..MaxOverlap

ChunkInit ==
    /\ pc = "split_into_chunks"
    /\ text \in Texts
    /\ chunk_size \in ChunkSizes
    /\ overlap \in Overlaps
    /\ chunks = <<>>
    /\ TocIdle
    /\ MarginIdle
    /\ SectionIdle
    /\ WriterIdle
    /\ ImageIdle
    /\ ConvertIdle
    /\ OverlapIdle
    /\ FormatIdle
    /\ LoopIdle

\* split_into_chunks(text) runs and returns
SplitIntoChunksCall ==
    /\ pc = "split_into_chunks"
    /\ chunks' = SplitIntoChunks(text, chunk_size, overlap)
    /\ pc' = "done"
    /\ UNCHANGED <<text, chunk_size, overlap>>
    /\ UNCHANGED exceptChunkVars

SpecChunk == ChunkInit /\ [][SplitIntoChunksCall]_vars

(***************************************************************************)
(* should_skip_text applied to a text run.                                 *)
(***************************************************************************)
Coords == 0..MaxCoord

\* the texts of a run: a word, whitespace only, empty
RunTexts == {<<"a">>, <<" ">>, <<>>}

MarginInit ==
    /\ pc = "should_skip_text"
    /\ run \in {r \in [text : RunTexts, y0 : Coords, y1 : Coords,
                       page_height : Coords] : r.y0 <= r.y1}
    /\ margins \in [header_margin : Coords, footer_margin : Coords]
    /\ skip = FALSE
    /\ TocIdle
    /\ ChunkIdle
    /\ SectionIdle
    /\ WriterIdle
    /\ ImageIdle
    /\ ConvertIdle
    /\ OverlapIdle
    /\ FormatIdle
    /\ LoopIdle

\* should_skip_text(text, text_element, page_height) runs and returns
ShouldSkipTextCall ==
    /\ pc = "should_skip_text"
    /\ skip' = ShouldSkipText(run.text, run, run.page_height, margins)
    /\ pc' = "done"
    /\ UNCHANGED <<run, margins>>
    /\ UNCHANGED exceptMarginVars

SpecMargin == MarginInit /\ [][ShouldSkipTextCall]_vars

(***************************************************************************)
(* One iteration of the loop of _process_with_toc: the text and the images *)
(* of a section whose page range has been determined.                      *)
(***************************************************************************)
\* the configured margins and the runs of a page of height 3: in the body,
\* in the footer margin, and an element that is not a text container
SectionMargins == [header_margin |-> 1, footer_margin |-> 1]

BodyRun(t) == [is_text |-> TRUE, text |-> t, y0 |-> 1, y1 |-> 2]
FooterRun(t) == [is_text |-> TRUE, text |-> t, y0 |-> 0, y1 |-> 1]
Figure == [is_text |-> FALSE, text |-> <<>>, y0 |-> 1, y1 |-> 2]

Word == BodyRun(<<" ", "a">>)
Blank == BodyRun(<<" ">>)
Empty == BodyRun(<<>>)
Footer == FooterRun(<<"a">>)
BlankFooter == FooterRun(<<" ">>)

PageContents ==
    {<<>>, <<Word>>, <<Blank>>, <<Empty>>, <<Footer>>, <<BlankFooter>>, <<Figure>>,
     <<Word, Word>>, <<Blank, Word>>, <<Word, Blank>>, <<Footer, Word>>}

DocPage == [height : {3}, elements : PageContents]

Documents == UNION {[1..n -> DocPage] : n \in 0..MaxDocPages}

\* image_p{page_num+1}_{img_idx+1}.{ext} of the first image of a page
\* the maps of a document in which some pages have one or two saved images
ImageMaps(num_pages) ==
    UNION {[with_image -> {1, 2}] : with_image \in SUBSET (0..(num_pages - 1))}

\* the map in which page p has the first saved[p] images of the page
ImageLocations(saved) ==
    [p \in DOMAIN saved |->
        [k \in 1..saved[p] |-> ImageFileName(p, k - 1, "png")]]

SectionInit ==
    /\ pc = "process_section"
    /\ pages \in Documents
    /\ image_locations \in {ImageLocations(saved) : saved \in ImageMaps(Len(pages))}
    /\ section_range \in {r \in (1..MaxDocPages) \X (1..(MaxDocPages + 1)) :
                             r[1] <= r[2]}
    /\ section_text = <<>>
    /\ margins = SectionMargins
    /\ run = [text |-> <<>>, y0 |-> 0, y1 |-> 0, page_height |-> 0]
    /\ skip = FALSE
    /\ TocIdle
    /\ ChunkIdle
    /\ WriterIdle
    /\ ImageIdle
    /\ ConvertIdle
    /\ OverlapIdle
    /\ FormatIdle
    /\ LoopIdle

\* lines 112-121 for one section
ProcessSection ==
    /\ pc = "process_section"
    /\ section_text' =
          AddImages(ExtractSectionText(pages, section_range[1],
                                       section_range[2], margins),
                    image_locations, section_range[1], section_range[2])
    /\ pc' = "done"
    /\ UNCHANGED <<pages, image_locations, section_range>>
    /\ UNCHANGED exceptSectionVars

SpecSection == SectionInit /\ [][ProcessSection]_vars

(***************************************************************************)
(* format_section_id applied to a section id.                              *)
(***************************************************************************)
\* the section numbers of the ids: one, two and three digits
SectionNumbers == {1, 2, 3, 9, 10, 11, 12, 100}

SectionIds == UNION {[1..n -> SectionNumbers] : n \in 1..MaxIdLen}

WriterInit ==
    /\ pc = "format_section_id"
    /\ section_id \in {IdString(id) : id \in SectionIds}
    /\ section_id_padded = <<>>
    /\ TocIdle
    /\ ChunkIdle
    /\ MarginIdle
    /\ SectionIdle
    /\ ImageIdle
    /\ ConvertIdle
    /\ OverlapIdle
    /\ FormatIdle
    /\ LoopIdle

\* format_section_id(section_id) runs and returns
FormatSectionIdCall ==
    /\ pc = "format_section_id"
    /\ section_id_padded' = FormatSectionId(section_id)
    /\ pc' = "done"
    /\ UNCHANGED section_id
    /\ UNCHANGED exceptWriterVars

SpecWriter == WriterInit /\ [][FormatSectionIdCall]_vars

(***************************************************************************)
(* extract_images over the images of a document.                           *)
(***************************************************************************)
GoodImage == [state |-> "good", ext |-> "png"]
ConvertedImage == [state |-> "good", ext |-> "jp2"]
SmallImage == [state |-> "small", ext |-> "png"]
UndecodableImage == [state |-> "undecodable", ext |-> "png"]
UnwritableImage == [state |-> "unwritable", ext |-> "png"]

\* page.get_images() of one page
ImageLists ==
    {<<>>, <<GoodImage>>, <<UndecodableImage>>,
     <<SmallImage, ConvertedImage>>,
     <<UnwritableImage, GoodImage>>,
     <<GoodImage, UndecodableImage, GoodImage>>,
     <<UndecodableImage, UnwritableImage, SmallImage>>}

ImageDocuments == UNION {[1..n -> ImageLists] : n \in 0..MaxDocPages}

ImageInit ==
    /\ pc = "extract_images"
    /\ doc_images \in ImageDocuments
    /\ image_cursor = <<0, 0>>
    /\ image_dir = {}
    /\ image_locations = <<>>
    /\ pages = <<>>
    /\ section_range = <<0, 0>>
    /\ section_text = <<>>
    /\ TocIdle
    /\ ChunkIdle
    /\ MarginIdle
    /\ WriterIdle
    /\ ConvertIdle
    /\ OverlapIdle
    /\ FormatIdle
    /\ LoopIdle

\* one iteration of the loop of _process_page (lines 62-66): the exception
\* of _save_image is logged and the loop goes on with the next image
SaveImageCallAbortsPage ==
    LET page_num == image_cursor[1]
        img_idx == image_cursor[2]
        image_list == doc_images[page_num + 1]
        saved == SaveImage(image_list[img_idx + 1], page_num, img_idx,
                           image_locations, image_dir)
    IN  /\ image_locations' = saved.image_locations
        /\ image_dir' = saved.image_dir
        /\ image_cursor' = <<page_num, IF saved.raised THEN Len(image_list)
                                       ELSE img_idx + 1>>

SaveImageCall ==
    LET page_num == image_cursor[1]
        img_idx == image_cursor[2]
        image_list == doc_images[page_num + 1]
        saved == SaveImage(image_list[img_idx + 1], page_num, img_idx,
                           image_locations, image_dir)
    IN  /\ image_locations' = saved.image_locations
        /\ image_dir' = saved.image_dir
        /\ image_cursor' = <<page_num, img_idx + 1>>

ProcessImage ==
    /\ pc = "extract_images"
    /\ image_cursor[1] < Len(doc_images)
    /\ image_cursor[2] < Len(doc_images[image_cursor[1] + 1])
    /\ SaveImageCall
    /\ UNCHANGED <<pc, doc_images, pages, section_range, section_text>>
    /\ UNCHANGED <<tocVars, chunkVars, marginVars, writerVars, convertVars,
                   overlapVars,
                   formatVars, loopVars>>

\* _process_page returns and extract_images takes the next page (line 41)
ProcessPageReturn ==
    /\ pc = "extract_images"
    /\ image_cursor[1] < Len(doc_images)
    /\ image_cursor[2] = Len(doc_images[image_cursor[1] + 1])
    /\ image_cursor' = <<image_cursor[1] + 1, 0>>
    /\ UNCHANGED <<pc, doc_images, image_dir>>
    /\ UNCHANGED <<sectionVars, tocVars, chunkVars, marginVars, writerVars,
                   convertVars, overlapVars,
                   formatVars, loopVars>>

\* return image_locations (line 44)
ExtractImagesReturn ==
    /\ pc = "extract_images"
    /\ image_cursor[1] = Len(doc_images)
    /\ pc' = "done"
    /\ UNCHANGED <<imageVars, sectionVars, tocVars, chunkVars, marginVars,
                   writerVars, convertVars, overlapVars,
                   formatVars, loopVars>>

ImageNext == ProcessImage \/ ProcessPageReturn \/ ExtractImagesReturn

SpecImages == ImageInit /\ [][ImageNext]_vars

(***************************************************************************)
(* main and PDFConverter.convert: the order of the calls and the way a     *)
(* conversion ends.  A call is represented by the event it leaves in       *)
(* `events`; the texts the calls hand to each other are the subject of     *)
(* the specifications above.                                               *)
(***************************************************************************)
\* the calls of the try block of convert up to the branch (lines 43-53)
ConvertCalls ==
    <<"mkdir", "setup_image_dir", "extract_images", "extract_toc",
      "save_toc_structure">>

\* mutant: the chunks of a section are written before the range of the
\* section is resolved
SectionCallsWriteFirst ==
    <<"write_chunk_files", "determine_section_pages", "create_section_dir",
      "extract_section_text", "format_text", "split_into_chunks">>

\* the calls of the body of the loop of _process_with_toc (lines 94-140)
SectionCalls ==
    <<"determine_section_pages", "create_section_dir", "extract_section_text",
      "format_text", "split_into_chunks", "write_chunk_files">>

\* the calls of _process_without_toc after the loop over the pages
\* (lines 186-203)
WholeDocumentCalls ==
    <<"format_text", "split_into_chunks", "write_chunks", "write_full_file">>

NoFault == [call |-> "none", section |-> 0]

\* a call outside the loop over the sections has section 0
Faults ==
    {NoFault}
    \cup {[call |-> c, section |-> 0] :
             c \in Range(ConvertCalls) \cup Range(WholeDocumentCalls)
                   \cup {"extract_pages"}}
    \cup {[call |-> c, section |-> i] :
             c \in Range(SectionCalls), i \in 1..MaxEntries}

\* write_full_file returns at once when keep_full_file is not set (writer.py
\* lines 129-130)
Raises(call, section) ==
    /\ fault = [call |-> call, section |-> section]
    /\ call = "write_full_file" => cli.keep_full_file

File(kind, section) == [kind |-> kind, section |-> section]

\* mutant: the full file is written whatever keep_full_file is
WriteFullFileAlways(keep) == {File("full_file", 0)}

\* write_full_file (writer.py lines 129-137)
WriteFullFile(keep) == IF keep THEN {File("full_file", 0)} ELSE {}

\* the files a call has written when it returns: structure.yaml, the chunk
\* files of a section, the chunk files chunk_NNN.md, the full file
Written(call, section) ==
    CASE call = "save_toc_structure" -> {File("structure.yaml", 0)}
      [] call = "write_chunk_files" -> {File("chunks", section)}
      [] call = "write_chunks" -> {File("chunks", 0)}
      [] call = "write_full_file" -> WriteFullFile(cli.keep_full_file)
      [] OTHER -> {}

Event(call, section, raised) ==
    [call |-> call, section |-> section, raised |-> raised]

\* extract_images (lines 35-44): the map and the files after all pages
RECURSIVE ExtractImagesFrom(_, _, _, _, _)
ExtractImagesFrom(doc, page_num, img_idx, locations, dir) ==
    IF page_num >= Len(doc)
    THEN [image_locations |-> locations, image_dir |-> dir]
    ELSE IF img_idx >= Len(doc[page_num + 1])
    THEN ExtractImagesFrom(doc, page_num + 1, 0, locations, dir)
    ELSE LET saved == SaveImage(doc[page_num + 1][img_idx + 1], page_num,
                                img_idx, locations, dir)
         IN  ExtractImagesFrom(doc, page_num, img_idx + 1,
                               saved.image_locations, saved.image_dir)

\* the entries of the outlines of the documents that are converted
ConvertEntries ==
    {[level |-> 1, title |-> "A", page |-> 1],
     [level |-> 2, title |-> "B", page |-> 2]}

ConvertOutlines == UNION {[1..n -> ConvertEntries] : n \in 0..MaxEntries}

\* the pages of the documents that are converted: no page, a page without
\* layout elements, a page with a text run, a page with a figure
ConvertDocuments ==
    {<<>>,
     <<[height |-> 3, elements |-> <<>>]>>,
     <<[height |-> 3, elements |-> <<>>], [height |-> 3, elements |-> <<Word>>]>>,
     <<[height |-> 3, elements |-> <<Figure>>]>>}

\* keep_full_file is config['chunking']['keep_full_file'] (writer.py line 20)
CliStates ==
    {c \in [pdf_is_file : BOOLEAN,
            config : {"loaded", "unloadable", "incomplete"},
            keep_full_file : BOOLEAN] :
        c.keep_full_file => (c.pdf_is_file /\ c.config = "loaded")}

ConvertInit ==
    /\ pc = "main"
    /\ cli \in CliStates
    /\ fault \in IF cli.pdf_is_file /\ cli.config = "loaded" THEN Faults
                 ELSE {NoFault}
    /\ events = <<>>
    /\ loop = <<0, 1>>
    /\ success = <<>>
    /\ exit_code = <<>>
    /\ files = {}
    /\ max_level \in ConfiguredTocLevels
    /\ toc \in ConvertOutlines
    /\ toc_structure = <<>>
    /\ current_path = <<>>
    /\ section_counters = [k \in 1..max_level |-> 0]
    /\ sorted_sections = <<>>
    /\ section_pages = <<>>
    /\ pages \in ConvertDocuments
    /\ doc_images \in {<<>>} \cup {[p \in 1..Len(pages) |-> <<UndecodableImage, GoodImage>>]}
    /\ image_locations = <<>>
    /\ image_cursor = <<0, 0>>
    /\ image_dir = {}
    /\ section_range = <<0, 0>>
    /\ section_text = <<>>
    /\ ChunkIdle
    /\ MarginIdle
    /\ WriterIdle
    /\ OverlapIdle
    /\ FormatIdle
    /\ LoopIdle

\* what no action of main and convert changes
convertFrame ==
    <<cli, fault, max_level, toc, pages, doc_images, image_cursor, section_text,
      chunkVars, marginVars, writerVars, overlapVars,
      formatVars, loopVars>>

\* if not pdf_path.is_file(): sys.exit(1) (cli.py lines 35-38)
CheckInputFile ==
    /\ pc = "main"
    /\ IF cli.pdf_is_file
       THEN pc' = "load_config" /\ exit_code' = exit_code
       ELSE pc' = "exited" /\ exit_code' = <<1>>
    /\ UNCHANGED <<events, files, loop, success, toc_structure, current_path,
                   section_counters, sorted_sections, section_pages,
                   image_locations, image_dir, section_range, convertFrame>>

\* load_config (config.py lines 25-30): sys.exit(1) when the file cannot be
\* read or parsed
LoadConfig ==
    /\ pc = "load_config"
    /\ IF cli.config = "unloadable"
       THEN pc' = "exited" /\ exit_code' = <<1>>
       ELSE pc' = "construct" /\ exit_code' = exit_code
    /\ UNCHANGED <<events, files, loop, success, toc_structure, current_path,
                   section_counters, sorted_sections, section_pages,
                   image_locations, image_dir, section_range, convertFrame>>

\* PDFConverter(config) (cli.py line 47, converter.py lines 24-29): the
\* constructors read config['images'], config['chunking'], ...; a loaded
\* configuration without them raises outside every try block
Construct ==
    /\ pc = "construct"
    /\ pc' = IF cli.config = "incomplete" THEN "uncaught" ELSE "convert"
    /\ UNCHANGED <<events, files, loop, success, exit_code, toc_structure,
                   current_path,
                   section_counters, sorted_sections, section_pages,
                   image_locations, image_dir, section_range, convertFrame>>

\* an exception that reaches the top of the program ends it with code 1
UncaughtExit ==
    /\ pc = "uncaught"
    /\ pc' = "exited"
    /\ exit_code' = <<1>>
    /\ UNCHANGED <<events, files, loop, success, toc_structure, current_path,
                   section_counters, sorted_sections, section_pages,
                   image_locations, image_dir, section_range, convertFrame>>

\* mutant: the handler logs the error and raises it again
ExceptHandlerReraises ==
    /\ success' = success
    /\ pc' = "uncaught"

\* except Exception as e: ... return False (converter.py lines 64-66)
ExceptHandler ==
    /\ success' = <<FALSE>>
    /\ pc' = "convert_returned"

\* a call inside the try block of convert: it raises, and the handler runs,
\* or it returns, and convert goes on at `next`
Call(call, section, raises, next) ==
    /\ events' = Append(events, Event(call, section, raises))
    /\ files' = IF raises THEN files ELSE files \cup Written(call, section)
    /\ IF raises THEN ExceptHandler
       ELSE success' = success /\ pc' = next

\* lines 43-53, one call; after save_toc_structure the branch of line 56
ConvertCall ==
    /\ pc = "convert"
    /\ LET call == ConvertCalls[loop[2]]
           raises == Raises(call, 0)
           last == loop[2] = Len(ConvertCalls)
           images == ExtractImagesFrom(doc_images, 0, 0, <<>>, {})
           st == TocAfter(toc, Len(toc), max_level)
       IN  /\ Call(call, 0, raises,
                   IF ~last THEN "convert"
                   ELSE IF toc_structure # <<>> THEN "process_with_toc"
                   ELSE "process_without_toc")
           /\ loop' = IF raises THEN loop
                      ELSE IF last THEN <<0, 1>> ELSE <<0, loop[2] + 1>>
           /\ IF call = "extract_images" /\ ~raises
              THEN /\ image_locations' = images.image_locations
                   /\ image_dir' = images.image_dir
              ELSE UNCHANGED <<image_locations, image_dir>>
           /\ IF call = "extract_toc" /\ ~raises
              THEN /\ toc_structure' = st.toc_structure
                   /\ current_path' = st.current_path
                   /\ section_counters' = st.section_counters
              ELSE UNCHANGED <<toc_structure, current_path, section_counters>>
    /\ UNCHANGED <<exit_code, sorted_sections, section_pages, section_range,
                   convertFrame>>

\* _process_with_toc, lines 81-89: extract_pages and the sort
StartWithToc ==
    /\ pc = "process_with_toc"
    /\ Call("extract_pages", 0, Raises("extract_pages", 0), "section_loop")
    /\ sorted_sections' = IF Raises("extract_pages", 0) THEN sorted_sections
                          ELSE Sorted(toc_structure)
    /\ UNCHANGED <<loop, exit_code, toc_structure, current_path,
                   section_counters, section_pages, image_locations, image_dir,
                   section_range, convertFrame>>

\* one call of the body of the loop over sorted_sections (lines 92-140)
SectionCall ==
    /\ pc = "section_loop"
    /\ loop[1] < Len(sorted_sections)
    /\ LET i == loop[1] + 1
           call == SectionCalls[loop[2]]
           raises == Raises(call, i)
           resolved == DetermineSectionPages(sorted_sections[i],
                                             sorted_sections, i)
       IN  /\ Call(call, i, raises, "section_loop")
           /\ loop' = IF raises THEN loop
                      ELSE IF loop[2] = Len(SectionCalls) THEN <<loop[1] + 1, 1>>
                      ELSE <<loop[1], loop[2] + 1>>
           /\ IF call = "determine_section_pages" /\ ~raises
              THEN /\ section_range' = resolved
                   /\ section_pages' = Append(section_pages, resolved)
              ELSE UNCHANGED <<section_range, section_pages>>
    /\ UNCHANGED <<exit_code, toc_structure, current_path, section_counters,
                   sorted_sections, image_locations, image_dir, convertFrame>>

\* write_full_file after the loop (line 143)
FinishWithToc ==
    /\ pc = "section_loop"
    /\ loop[1] = Len(sorted_sections)
    /\ Call("write_full_file", 0, Raises("write_full_file", 0), "return_true")
    /\ UNCHANGED <<loop, exit_code, toc_structure, current_path,
                   section_counters, sorted_sections, section_pages,
                   image_locations, image_dir, section_range, convertFrame>>

\* _process_without_toc, lines 156-183: extract_pages and the loop over the
\* pages.  `layout` is not a name of converter.py (lines 1-13), so that
\* evaluating line 177 for the first element of a page raises NameError
ProcessPagesWithoutToc ==
    /\ pc = "process_without_toc"
    /\ IF Raises("extract_pages", 0)
       THEN Call("extract_pages", 0, TRUE, "whole_document")
       ELSE Call("process_pages", 0,
                 \E p \in DOMAIN pages : pages[p].elements # <<>>,
                 "whole_document")
    /\ UNCHANGED <<loop, exit_code, toc_structure, current_path,
                   section_counters, sorted_sections, section_pages,
                   image_locations, image_dir, section_range, convertFrame>>

\* _process_without_toc, lines 186-203, one call
WholeDocumentCall ==
    /\ pc = "whole_document"
    /\ LET call == WholeDocumentCalls[loop[2]]
           raises == Raises(call, 0)
           last == loop[2] = Len(WholeDocumentCalls)
       IN  /\ Call(call, 0, raises,
                   IF last THEN "return_true" ELSE "whole_document")
           /\ loop' = IF raises \/ last THEN loop ELSE <<0, loop[2] + 1>>
    /\ UNCHANGED <<exit_code, toc_structure, current_path, section_counters,
                   sorted_sections, section_pages, image_locations, image_dir,
                   section_range, convertFrame>>

\* return True (converter.py lines 61-62)
ConvertReturnsTrue ==
    /\ pc = "return_true"
    /\ success' = <<TRUE>>
    /\ pc' = "convert_returned"
    /\ UNCHANGED <<events, files, loop, exit_code, toc_structure, current_path,
                   section_counters, sorted_sections, section_pages,
                   image_locations, image_dir, section_range, convertFrame>>

\* sys.exit(0 if success else 1) (cli.py line 51)
Exit ==
    /\ pc = "convert_returned"
    /\ exit_code' = <<IF success = <<TRUE>> THEN 0 ELSE 1>>
    /\ pc' = "exited"
    /\ UNCHANGED <<events, files, loop, success, toc_structure, current_path,
                   section_counters, sorted_sections, section_pages,
                   image_locations, image_dir, section_range, convertFrame>>

ConvertNext ==
    \/ CheckInputFile
    \/ LoadConfig
    \/ Construct
    \/ UncaughtExit
    \/ ConvertCall
    \/ StartWithToc
    \/ SectionCall
    \/ FinishWithToc
    \/ ProcessPagesWithoutToc
    \/ WholeDocumentCall
    \/ ConvertReturnsTrue
    \/ Exit

SpecConvert == ConvertInit /\ [][ConvertNext]_vars

(***************************************************************************)
(* _add_overlap_to_chunks applied to a list of chunks.                     *)
(***************************************************************************)
MaxChunks == 3   \* the most chunks handed to _add_overlap_to_chunks

ChunkAlphabet == {"a", "b"}

\* the chunks: empty, shorter than the overlap, as long, longer; the
\* letters alternate, so that every position of a chunk can be told from
\* its neighbours
ChunkTexts ==
    {t \in UNION {[1..n -> ChunkAlphabet] : n \in 0..(MaxOverlap + 1)} :
        \A k \in 1..(Len(t) - 1) : t[k] # t[k + 1]}

ChunkLists == UNION {[1..n -> ChunkTexts] : n \in 0..MaxChunks}

OverlapInit ==
    /\ pc = "add_overlap_to_chunks"
    /\ original_chunks \in ChunkLists
    /\ overlap \in Overlaps
    /\ chunks = <<>>
    /\ text = <<>>
    /\ chunk_size = 0
    /\ TocIdle
    /\ MarginIdle
    /\ SectionIdle
    /\ WriterIdle
    /\ ImageIdle
    /\ ConvertIdle
    /\ FormatIdle
    /\ LoopIdle

\* _add_overlap_to_chunks(chunks) runs and returns
AddOverlapToChunksCall ==
    /\ pc = "add_overlap_to_chunks"
    /\ chunks' = AddOverlapToChunks(original_chunks, overlap)
    /\ pc' = "done"
    /\ UNCHANGED <<text, chunk_size, overlap, original_chunks>>
    /\ UNCHANGED <<tocVars, marginVars, sectionVars, writerVars, imageVars,
                   convertVars, formatVars, loopVars>>

SpecOverlap == OverlapInit /\ [][AddOverlapToChunksCall]_vars

(***************************************************************************)
(* format_text on its own: a text, formatted, and the result formatted     *)
(* again.                                                                  *)
(***************************************************************************)
FormatAlphabet == {"a", " ", "\n", CarriageReturn, FormFeed}

FormatTexts == UNION {[1..n -> FormatAlphabet] : n \in 0..MaxFormatLen}

FormatInit ==
    /\ pc = "format_text"
    /\ text \in FormatTexts
    /\ formatted = <<>>
    /\ chunk_size = 0
    /\ overlap = 0
    /\ chunks = <<>>
    /\ TocIdle
    /\ MarginIdle
    /\ SectionIdle
    /\ WriterIdle
    /\ ImageIdle
    /\ ConvertIdle
    /\ OverlapIdle
    /\ LoopIdle

\* format_text(text) returns; the next call is given what it returned
FormatTextCall ==
    /\ pc = "format_text"
    /\ Len(formatted) < MaxFormatCalls
    /\ formatted' =
          Append(formatted,
                 FormatText(IF formatted = <<>> THEN text
                            ELSE formatted[Len(formatted)],
                            MaxNewlinesString(ConfiguredMaxNewlines)))
    /\ UNCHANGED <<pc, chunkVars>>
    /\ UNCHANGED exceptFormatVars

SpecFormat == FormatInit /\ [][FormatTextCall]_vars

(***************************************************************************)
(* The loop of _process_with_toc with its sections taken in any order and  *)
(* the chunk files of a section written at any time after its text is      *)
(* appended: the runs of the loop body in parallel, one run per section.   *)
(* The run of the code is the one that takes the sections in the order of  *)
(* sorted_sections and writes the files of each before the next.           *)
(***************************************************************************)
\* the maps in which no page, or the first page alone, has one saved image
LoopImageMaps(num_pages) ==
    {saved \in ImageMaps(num_pages) :
        DOMAIN saved \subseteq {0} /\ \A p \in DOMAIN saved : saved[p] = 1}

NoFullFile == [written |-> FALSE, content |-> <<>>]

\* the state at line 92: the outline read, the sections sorted, the pages
\* and the images extracted, nothing processed
LoopInit ==
    /\ pc = "process_with_toc"
    /\ max_level \in ConfiguredTocLevels
    /\ toc \in ConvertOutlines \ {<<>>}
    /\ toc_structure = TocAfter(toc, Len(toc), max_level).toc_structure
    /\ current_path = TocAfter(toc, Len(toc), max_level).current_path
    /\ section_counters = TocAfter(toc, Len(toc), max_level).section_counters
    /\ sorted_sections = Sorted(toc_structure)
    /\ section_pages = <<>>
    /\ pages \in ConvertDocuments
    /\ image_locations \in {ImageLocations(saved) : saved \in LoopImageMaps(Len(pages))}
    /\ section_range = <<0, 0>>
    /\ section_text = <<>>
    /\ margins = SectionMargins
    /\ run = [text |-> <<>>, y0 |-> 0, y1 |-> 0, page_height |-> 0]
    /\ skip = FALSE
    /\ text = <<>>
    /\ chunk_size \in {MaxChunkSize, TestChunkSize}
    /\ overlap = MaxOverlap
    /\ chunks = <<>>
    /\ position = [i \in 1..Len(sorted_sections) |-> "todo"]
    /\ formatted_text = <<>>
    /\ chunk_files = {}
    /\ full_file = NoFullFile
    /\ WriterIdle
    /\ ImageIdle
    /\ ConvertIdle
    /\ OverlapIdle
    /\ FormatIdle

loopFrame ==
    <<tocVars, chunkVars, marginVars, sectionVars, writerVars, imageVars,
      convertVars, overlapVars, formatVars>>

\* lines 94-132 for section i: its text is built and appended to
\* formatted_text
AppendSection(i) ==
    /\ pc = "process_with_toc"
    /\ position[i] = "todo"
    /\ formatted_text' =
          Append(formatted_text,
                 SectionTextOf(sorted_sections, i, pages, image_locations, margins))
    /\ position' = [position EXCEPT ![i] = "appended"]
    /\ UNCHANGED <<pc, chunk_files, full_file>>
    /\ UNCHANGED loopFrame

\* lines 135-140 for section i: its text is split and its chunk files are
\* written
WriteSectionChunks(i) ==
    /\ pc = "process_with_toc"
    /\ position[i] = "appended"
    /\ chunk_files' =
          SectionChunksWritten(chunk_files, toc_structure, sorted_sections, i,
                               SectionTextOf(sorted_sections, i, pages,
                                             image_locations, margins),
                               chunk_size, overlap)
    /\ position' = [position EXCEPT ![i] = "written"]
    /\ UNCHANGED <<pc, formatted_text, full_file>>
    /\ UNCHANGED loopFrame

\* line 143 with keep_full_file set: '\n\n'.join(formatted_text) is written
\* (writer.py lines 133-137)
WriteFullFileCall ==
    /\ pc = "process_with_toc"
    /\ \A i \in DOMAIN position : position[i] = "written"
    /\ full_file' = [written |-> TRUE,
                     content |-> Join(formatted_text, <<Newline, Newline>>)]
    /\ pc' = "done"
    /\ UNCHANGED <<position, formatted_text, chunk_files>>
    /\ UNCHANGED loopFrame

LoopNext ==
    \/ \E i \in DOMAIN position : AppendSection(i)
    \/ \E i \in DOMAIN position : WriteSectionChunks(i)
    \/ WriteFullFileCall

SpecLoop == LoopInit /\ [][LoopNext]_vars

(***************************************************************************)
(* Vocabulary of the claims on the outline: the entries of the outline     *)
(* that extract_toc accepts, the record it builds for each, and the tree   *)
(* the levels describe.                                                    *)
(***************************************************************************)
AcceptedIdx == {k \in 1..Len(toc) : toc[k].level <= max_level}

\* the section_entry built when entry k of the outline is processed
EntryRecord(k) == SectionEntry(TocAfter(toc, k - 1, max_level), toc[k])

\* stands in the list of records for an entry that is discarded
NoRecord == [level |-> 0]

\* the loop state after the first n entries together with the section_entry
\* built for each accepted one of them, EntryRecord(k) at position k, in
\* one pass over the outline
RECURSIVE BuiltUpTo(_)
BuiltUpTo(n) ==
    IF n = 0 THEN [st |-> TocStart(max_level), recs |-> <<>>]
    ELSE LET b == BuiltUpTo(n - 1)
         IN  [st |-> TocIteration(b.st, toc[n], max_level),
              recs |-> Append(b.recs,
                              IF toc[n].level > max_level THEN NoRecord
                              ELSE SectionEntry(b.st, toc[n]))]

EntryRecords == BuiltUpTo(Len(toc)).recs

\* the accepted entries in outline order
AcceptedEntries == SelectSeq(toc, LAMBDA e : e.level <= max_level)

MaxOf(S) == CHOOSE x \in S : \A y \in S : y <= x

\* the first accepted entry is at level 1 and no entry is more than one
\* level deeper than the accepted entry before it
WellFormedOutline ==
    LET acc == AcceptedEntries
    IN  \A k \in 1..Len(acc) :
            IF k = 1 THEN acc[k].level = 1
            ELSE acc[k].level <= acc[k - 1].level + 1

\* extract_toc is at its loop; it can return on the outline consumed so far,
\* and what it has built does not change after it returns
InExtractToc == pc = "extract_toc"

\* entry a is an ancestor of entry b
IsAncestor(a, b) ==
    /\ a < b
    /\ toc[a].level < toc[b].level
    /\ \A m \in AcceptedIdx : (a < m /\ m < b) => toc[m].level > toc[a].level

(***************************************************************************)
(* C1 (as stated): the ids built for distinct accepted entries of any      *)
(* outline are pairwise distinct, so no entry overwrites an earlier one.   *)
(***************************************************************************)
C1_IdsDistinctAnyOutline ==
    \A j, k \in AcceptedIdx : j # k => EntryRecord(j).id # EntryRecord(k).id

(***************************************************************************)
(* C1 (amended): for a well-formed outline the ids built for distinct      *)
(* accepted entries are pairwise distinct, and the section map holds one   *)
(* record per accepted entry.                                              *)
(***************************************************************************)
C1_IdsDistinctWellFormed ==
    (InExtractToc /\ WellFormedOutline) =>
        LET recs == EntryRecords
        IN  /\ \A j, k \in AcceptedIdx : j # k => recs[j].id # recs[k].id
            /\ Len(toc_structure) = Cardinality(AcceptedIdx)
            /\ \A k \in AcceptedIdx : recs[k] \in Range(toc_structure)

\* a well-formed outline of three sections that returns to level 1
C1_Witness ==
    /\ InExtractToc
    /\ WellFormedOutline
    /\ Len(toc) = 3
    /\ AcceptedIdx = 1..3
    /\ toc[2].level = 2
    /\ toc[3].level = 1
    /\ Len(toc_structure) = 3

C9_AncestorPathPrefix ==
    InExtractToc =>
        LET recs == EntryRecords
        IN  \A a, b \in AcceptedIdx :
                IsAncestor(a, b) =>
                    IsStrictPrefix(recs[a].full_path, recs[b].full_path)

\* an ancestor that is not the parent, with an entry between the two
C9_Witness ==
    /\ InExtractToc
    /\ \E a, b \in AcceptedIdx :
          /\ IsAncestor(a, b)
          /\ b = a + 2
          /\ a + 1 \in AcceptedIdx
          /\ toc[a + 1].level >= toc[b].level
          /\ EntryRecord(a) \in Range(toc_structure)
          /\ EntryRecord(b) \in Range(toc_structure)

(***************************************************************************)
(* C5: determine_section_pages returns end_page >= start_page for every    *)
(* section of every section map, whatever the order of the traversal list. *)
(***************************************************************************)
C5_EndNotBeforeStart ==
    pc = "done" =>
        \A i \in 1..Len(section_pages) : section_pages[i][2] >= section_pages[i][1]

\* a traversal that is not the converter's, in which the probes give a
\* section an end page before its start page
C5_Witness ==
    /\ pc = "done"
    /\ sorted_sections # Sorted(toc_structure)
    /\ \E i \in 1..Len(sorted_sections) :
          /\ EndPageUnclamped(sorted_sections[i], sorted_sections, i)
                < sorted_sections[i].page
          /\ section_pages[i] = <<sorted_sections[i].page, sorted_sections[i].page>>

(***************************************************************************)
(* Vocabulary of the claims on the page ranges of a conversion.            *)
(***************************************************************************)
MinOf(S) == CHOOSE x \in S : \A y \in S : x <= y

\* the parent of entry k: the last accepted entry before it at a smaller
\* level, 0 when there is none
ParentIdx(k) ==
    LET above == {j \in AcceptedIdx : j < k /\ toc[j].level < toc[k].level}
    IN  IF above = {} THEN 0 ELSE MaxOf(above)

DirectChildren(s) ==
    {c \in AcceptedIdx : ParentIdx(c) = s /\ toc[c].level = toc[s].level + 1}

\* the first direct child of entry s in outline order, 0 when it has none
FirstDirectChild(s) ==
    IF DirectChildren(s) = {} THEN 0 ELSE MinOf(DirectChildren(s))

IsSibling(t, s) ==
    /\ t # s
    /\ toc[t].level = toc[s].level
    /\ ParentIdx(t) = ParentIdx(s)

\* the entries after s at the level of s or above it
LaterSameOrShallower(s) ==
    {m \in AcceptedIdx : m > s /\ toc[m].level <= toc[s].level}

\* the record built for entry k is the one the section map returns
Survives(k) ==
    \A m \in AcceptedIdx : m > k => EntryRecord(m).id # EntryRecord(k).id

\* the position of the section of entry k in the traversal list
TraversalIdx(k) ==
    CHOOSE i \in 1..Len(sorted_sections) : sorted_sections[i].id = EntryRecord(k).id

EndPageOf(k) == section_pages[TraversalIdx(k)][2]

\* the section of entry k got the fallback span of line 119
GotFallback(k) ==
    LET i == TraversalIdx(k)
    IN  /\ FirstChildPage(sorted_sections[i], sorted_sections, i) = NoPage
        /\ NextSiblingOrCousinPage(sorted_sections[i], sorted_sections, i) = NoPage

PagesStrictlyIncrease ==
    \A j, k \in AcceptedIdx : j < k => toc[j].page < toc[k].page

PagesNeverDecrease ==
    \A j, k \in AcceptedIdx : j < k => toc[j].page <= toc[k].page

\* the statement of C6 for the outlines that satisfy Pre
ChildPriority(Pre) ==
    (pc = "done" /\ Pre) =>
        \A s, t \in AcceptedIdx :
            LET c == FirstDirectChild(s)
            IN  (/\ Survives(s)
                 /\ c # 0
                 /\ Survives(c)
                 /\ IsSibling(t, s)
                 /\ Survives(t)
                 /\ toc[t].page >= toc[s].page
                 /\ toc[c].page <= toc[t].page)
                => EndPageOf(s) = toc[c].page

\* the statement of C7 for the outlines that satisfy Pre
FallbackOnlyTrailingLeaf(Pre) ==
    (pc = "done" /\ Pre) =>
        \A s \in AcceptedIdx :
            Survives(s) =>
                /\ GotFallback(s) =>
                      (DirectChildren(s) = {} /\ LaterSameOrShallower(s) = {})
                /\ (DirectChildren(s) = {} /\ LaterSameOrShallower(s) # {}) =>
                      EndPageOf(s) = toc[MinOf(LaterSameOrShallower(s))].page

RegularOutline == WellFormedOutline /\ PagesStrictlyIncrease

(***************************************************************************)
(* C6 (as stated): in a conversion, a section with a direct child and a    *)
(* sibling on the section's own page or later, whose first child's page is *)
(* not after the sibling's page, ends at the child's page.                 *)
(***************************************************************************)
C6_ChildPriorityAnyOutline == ChildPriority(TRUE)

(***************************************************************************)
(* C6 (amended): the same, for a well-formed outline whose pages strictly  *)
(* increase in outline order.                                              *)
(***************************************************************************)
C6_ChildPriorityRegular == ChildPriority(RegularOutline)

\* a regular outline: a section, its child, then its sibling; the section
\* ends at the child's page, which is before the sibling's
C6_Witness ==
    /\ pc = "done"
    /\ RegularOutline
    /\ \E s, t \in AcceptedIdx :
          /\ FirstDirectChild(s) # 0
          /\ IsSibling(t, s)
          /\ t > s
          /\ toc[FirstDirectChild(s)].page < toc[t].page
          /\ EndPageOf(s) = toc[FirstDirectChild(s)].page

(***************************************************************************)
(* C7: in a conversion the fallback end page start_page + 10 goes only to  *)
(* a trailing leaf (no direct child, no later entry of the outline at its  *)
(* level or above), and every leaf followed in the outline by an entry at  *)
(* its level or above ends at the page of the first such entry.  Stated    *)
(* for the outlines the resolver is written for: well-formed, with pages   *)
(* that never decrease in outline order.                                   *)
(***************************************************************************)
C7_FallbackOnlyTrailingLeaf ==
    FallbackOnlyTrailingLeaf(WellFormedOutline /\ PagesNeverDecrease)

(***************************************************************************)
(* Vocabulary of the claims on the chunks.                                 *)
(***************************************************************************)
Contains(s, sub) ==
    \E i \in 0..(Len(s) - Len(sub)) : SubSeq(s, i + 1, i + Len(sub)) = sub

\* '... [previous chunk overlap] ...', the marker without its blank lines
MarkerLine == SubSeq(OverlapMarker, 3, Len(OverlapMarker) - 2)

\* a chunk that is one sentence of one paragraph
IsSingleSentence(c) == SplitParagraphs(c) = <<c>> /\ SplitSentences(c) = <<c>>

\* a chunk without the overlap text and the marker put before it
StripOverlap(c) ==
    IF Contains(c, OverlapMarker)
    THEN LET at == {i \in 0..(Len(c) - Len(OverlapMarker)) :
                       SubSeq(c, i + 1, i + Len(OverlapMarker)) = OverlapMarker}
         IN  Drop(c, MinOf(at) + Len(OverlapMarker))
    ELSE c

StrippedChunks == [i \in 1..Len(chunks) |-> StripOverlap(chunks[i])]

\* what may stand between two chunks: a blank line or a single space when
\* strict, any run of whitespace otherwise
IsSeparator(sep, strict) ==
    IF strict THEN sep \in {<<" ">>, <<Newline, Newline>>}
    ELSE sep # <<>> /\ \A k \in 1..Len(sep) : sep[k] \in Whitespace

\* the chunks cs, in order and with a separator between each two, give t
RECURSIVE Reassembles(_, _, _)
Reassembles(cs, t, strict) ==
    IF cs = <<>> THEN t = <<>>
    ELSE IF Len(cs) = 1 THEN cs[1] = t
    ELSE /\ IsPrefix(cs[1], t)
         /\ \E n \in 1..(Len(t) - Len(cs[1])) :
               /\ IsSeparator(SubSeq(t, Len(cs[1]) + 1, Len(cs[1]) + n), strict)
               /\ Reassembles(Tail(cs), Drop(t, Len(cs[1]) + n), strict)

NoLongParagraph ==
    \A k \in 1..Len(SplitParagraphs(text)) :
        Len(SplitParagraphs(text)[k]) <= chunk_size

\* the text with, in every paragraph longer than max_chars, each run of
\* whitespace after a sentence end replaced by one space
SentenceSpacedText ==
    LET paragraphs == SplitParagraphs(text)
    IN  Join([k \in 1..Len(paragraphs) |->
                 IF Len(paragraphs[k]) > chunk_size
                 THEN Join(SplitSentences(paragraphs[k]), <<" ">>)
                 ELSE paragraphs[k]],
             <<Newline, Newline>>)

(***************************************************************************)
(* C2: every chunk split_into_chunks returns is at most max_chars long,    *)
(* except a chunk that is a single sentence longer than max_chars.  Stated *)
(* for overlap_chars = 0, where nothing is put before a chunk.             *)
(***************************************************************************)
C2_ChunkSizeBound ==
    (pc = "done" /\ overlap = 0) =>
        \A i \in 1..Len(chunks) :
            Len(chunks[i]) <= chunk_size \/ IsSingleSentence(chunks[i])

(***************************************************************************)
(* C3: with overlap_chars > 0, when split_into_chunks returns more than    *)
(* one chunk, every chunk after the first contains the overlap marker and  *)
(* the first does not.                                                     *)
(***************************************************************************)
C3_OverlapMarkerPresence ==
    (pc = "done" /\ overlap > 0 /\ Len(chunks) > 1) =>
        /\ \A i \in 2..Len(chunks) : Contains(chunks[i], MarkerLine)
        /\ ~Contains(chunks[1], MarkerLine)

(***************************************************************************)
(* C4 (as stated): the chunks without their overlap text and marker, in    *)
(* order, with a paragraph or sentence separator between each two, are the *)
(* input text; with overlap_chars = 0 and no paragraph longer than         *)
(* max_chars the chunks joined by a blank line are the input text.         *)
(***************************************************************************)
C4_CoverageExact ==
    pc = "done" =>
        /\ Reassembles(StrippedChunks, text, FALSE)
        /\ (overlap = 0 /\ NoLongParagraph) =>
              Join(chunks, <<Newline, Newline>>) = text

(***************************************************************************)
(* C4 (amended): the chunks without their overlap text and marker, in      *)
(* order, with a blank line or a single space between each two, are the    *)
(* input text in which, inside every paragraph longer than max_chars, each *)
(* run of whitespace after a sentence end is replaced by one space; with   *)
(* overlap_chars = 0 and no paragraph longer than max_chars the chunks     *)
(* joined by a blank line are the input text.                              *)
(***************************************************************************)
C4_CoverageSentenceSpaced ==
    pc = "done" =>
        /\ Reassembles(StrippedChunks, SentenceSpacedText, TRUE)
        /\ (overlap = 0 /\ NoLongParagraph) =>
              Join(chunks, <<Newline, Newline>>) = text

\* a text whose sentences are separated by a newline, split into several
\* chunks that carry the overlap marker
C4_Witness ==
    /\ pc = "done"
    /\ overlap > 0
    /\ Len(chunks) >= 2
    /\ \E i \in 2..Len(chunks) : Contains(chunks[i], OverlapMarker)
    /\ \A i \in 1..Len(chunks) : StripOverlap(chunks[i]) # <<>>
    /\ SentenceSpacedText # text
    /\ Reassembles(StrippedChunks, SentenceSpacedText, TRUE)

(***************************************************************************)
(* C10: should_skip_text returns true exactly when y_bottom < footer_margin*)
(* or y_top > page_height - header_margin, whatever the text; a run whose  *)
(* edge lies on a margin boundary is kept.                                 *)
(***************************************************************************)
C10_SkipExactlyInMargins ==
    pc = "done" =>
        (skip <=> (\/ run.y0 < margins.footer_margin
                   \/ run.y1 > run.page_height - margins.header_margin))

\* a run of text with both edges exactly on the margin boundaries: kept
C10_Witness ==
    /\ pc = "done"
    /\ run.text = <<"a">>
    /\ margins.footer_margin > 0
    /\ margins.header_margin > 0
    /\ run.y0 = margins.footer_margin
    /\ run.y1 = run.page_height - margins.header_margin
    /\ skip = FALSE

(***************************************************************************)
(* Vocabulary of the claims on the text and the images of a section.       *)
(***************************************************************************)
\* a text that is empty or holds whitespace only
IsBlankText(t) == \A i \in 1..Len(t) : t[i] \in Whitespace

\* the text runs of the document that are empty or whitespace-only
BlankRuns ==
    {pe \in UNION {{<<p, e>> : e \in DOMAIN pages[p].elements} : p \in DOMAIN pages} :
        /\ pages[pe[1]].elements[pe[2]].is_text
        /\ IsBlankText(pages[pe[1]].elements[pe[2]].text)}

\* the margin filter's answer for element pe[2] of page pe[1]
FilterSkips(pe) ==
    ShouldSkipText(Strip(pages[pe[1]].elements[pe[2]].text),
                   pages[pe[1]].elements[pe[2]], pages[pe[1]].height, margins)

\* the run lies in a margin
InMargin(pe) ==
    \/ pages[pe[1]].elements[pe[2]].y0 < margins.footer_margin
    \/ pages[pe[1]].elements[pe[2]].y1 >
          pages[pe[1]].height - margins.header_margin

\* the document without its empty and whitespace-only text runs
WithoutBlankRuns ==
    [p \in 1..Len(pages) |->
        [height |-> pages[p].height,
         elements |-> SelectSeq(pages[p].elements,
                                LAMBDA el : ~(el.is_text /\ IsBlankText(el.text)))]]

\* the text of the section is the one the document gives without those runs
BlankRunsContributeNothing ==
    section_text =
        AddImages(ExtractSectionText(WithoutBlankRuns, section_range[1],
                                     section_range[2], margins),
                  image_locations, section_range[1], section_range[2])

(***************************************************************************)
(* C11 (as stated): every empty or whitespace-only text run is reported as *)
(* skipped by the margin filter, whatever its position, and contributes no *)
(* line to the text of the section.                                        *)
(***************************************************************************)
C11_BlankRunsFiltered ==
    pc = "done" =>
        /\ \A pe \in BlankRuns : FilterSkips(pe)
        /\ BlankRunsContributeNothing

(***************************************************************************)
(* C11 (amended): an empty or whitespace-only text run contributes no line *)
(* to the text of the section, whatever its position; the margin filter    *)
(* reports it as skipped exactly when it lies in a margin.                 *)
(***************************************************************************)
C11_BlankRunsContributeNothing ==
    pc = "done" =>
        /\ BlankRunsContributeNothing
        /\ \A pe \in BlankRuns : FilterSkips(pe) <=> InMargin(pe)

\* a page that is read holds a whitespace-only run in the body followed by
\* a word, and the word is the text of the section
C11_Witness ==
    /\ pc = "done"
    /\ Len(pages) >= 1
    /\ pages[1].elements = <<Blank, Word>>
    /\ section_range = <<1, 2>>
    /\ image_locations = <<>>
    /\ <<1, 1>> \in BlankRuns
    /\ ~FilterSkips(<<1, 1>>)
    /\ section_text = <<"a">>

(***************************************************************************)
(* Vocabulary of the claim on format_section_id.                           *)
(***************************************************************************)
\* the components of the id and of the formatted id
IdParts == SplitOn(section_id, ".")
PaddedParts == SplitOn(section_id_padded, "_")

\* q is the numeral of part p zero-padded to two digits and no further
IsZeroPadded(q, p) ==
    /\ Len(q) >= 2
    /\ Len(q) >= Len(p)
    /\ ParseInt(q) = ParseInt(p)
    /\ Len(q) > 2 => q[1] # "0"

(***************************************************************************)
(* C12: format_section_id joins the components of the id with '_', the     *)
(* first unchanged, every later one zero-padded to at least two digits and *)
(* never truncated, and appends '_0' exactly when the id has one           *)
(* component: '1.2.3' -> '1_02_03', '1' -> '1_0', '10.11.12' -> '10_11_12'.*)
(***************************************************************************)
C12_FormatSectionId ==
    pc = "done" =>
        /\ IF Len(IdParts) = 1
           THEN PaddedParts = <<IdParts[1], <<"0">>>>
           ELSE /\ Len(PaddedParts) = Len(IdParts)
                /\ PaddedParts[1] = IdParts[1]
                /\ \A k \in 2..Len(IdParts) :
                      IsZeroPadded(PaddedParts[k], IdParts[k])
        /\ section_id = <<"1", ".", "2", ".", "3">> =>
              section_id_padded = <<"1", "_", "0", "2", "_", "0", "3">>
        /\ section_id = <<"1">> => section_id_padded = <<"1", "_", "0">>
        /\ section_id = <<"1", "0", ".", "1", "1", ".", "1", "2">> =>
              section_id_padded = <<"1", "0", "_", "1", "1", "_", "1", "2">>

\* an id with a one-digit and a three-digit component after the first
C12_Witness ==
    /\ pc = "done"
    /\ section_id = <<"1", "0", ".", "2", ".", "1", "0", "0">>
    /\ section_id_padded = <<"1", "0", "_", "0", "2", "_", "1", "0", "0">>

(***************************************************************************)
(* Vocabulary of the claim on a text of two paragraphs.                    *)
(***************************************************************************)
BlankLine == <<Newline, Newline>>

\* the places where the text holds a blank line
BlankLineAt == {i \in 1..(Len(text) - 1) : text[i] = Newline /\ text[i + 1] = Newline}

FirstBlankLine == CHOOSE i \in BlankLineAt : \A j \in BlankLineAt : i <= j

\* the text is two paragraphs: what precedes its first blank line and what
\* follows it, which holds no further blank line
FirstParagraph == Take(text, FirstBlankLine - 1)
SecondParagraph == Drop(text, FirstBlankLine + 1)

IsTwoParagraphs == BlankLineAt # {} /\ ~Contains(SecondParagraph, BlankLine)

(***************************************************************************)
(* C13: with overlap_chars = 0, a text of exactly two paragraphs, each no  *)
(* longer than max_chars and together longer than max_chars, is returned   *)
(* as exactly two chunks: the first paragraph, then the second.            *)
(***************************************************************************)
C13_TwoParagraphsTwoChunks ==
    (/\ pc = "done"
     /\ overlap = 0
     /\ IsTwoParagraphs
     /\ Len(FirstParagraph) <= chunk_size
     /\ Len(SecondParagraph) <= chunk_size
     /\ Len(FirstParagraph) + Len(SecondParagraph) > chunk_size)
    => chunks = <<FirstParagraph, SecondParagraph>>

\* 'a' and 'aa' with max_chars = 2
C13_Witness ==
    /\ pc = "done"
    /\ overlap = 0
    /\ chunk_size = 2
    /\ text = <<"a", Newline, Newline, "a", "a">>
    /\ IsTwoParagraphs
    /\ chunks = <<<<"a">>, <<"a", "a">>>>

(***************************************************************************)
(* Vocabulary of the claims on the pages of a section.                     *)
(***************************************************************************)
\* the file names of the images referenced in the text of the section
ReferencedImages ==
    {f \in UNION {Range(image_locations[p]) : p \in DOMAIN image_locations} :
        \E i \in 1..Len(section_text) : section_text[i] = f}

\* the file names of the images saved from the pages of index lo .. hi - 1
ImagesOfPages(lo, hi) ==
    UNION {Range(image_locations[p]) :
              p \in {q \in DOMAIN image_locations : lo <= q /\ q < hi}}

\* the 0-based indices of the pages from which the text of the section is read
TextPages == Range(PagesRead(Len(pages), section_range[1], section_range[2]))

(***************************************************************************)
(* C17: the images referenced in the text of a section are exactly those   *)
(* of the pages of index start_page - 1 <= p < end_page - 1, the pages the *)
(* text is read from; an image of the page numbered end_page is not        *)
(* referenced.                                                             *)
(***************************************************************************)
C17_ImagesOfTextPages ==
    pc = "done" =>
        /\ ReferencedImages =
              ImagesOfPages(section_range[1] - 1, section_range[2] - 1)
        /\ \A p \in DOMAIN image_locations :
              ReferencedImages \cap Range(image_locations[p]) # {}
                  => p + 1 < section_range[2]

(***************************************************************************)
(* C18: the pages read for the text of a section are never none: when the  *)
(* start page of the section exists in the document, it is among the pages *)
(* read, also when end_page equals start_page.                             *)
(***************************************************************************)
C18_StartPageRead ==
    (pc = "done" /\ section_range[1] <= Len(pages)) =>
        /\ TextPages # {}
        /\ section_range[1] - 1 \in TextPages
        /\ pages[section_range[1]].elements = <<Word>> => section_text # <<>>

(***************************************************************************)
(* C20: an outline entry with level > max_level is discarded entirely: it  *)
(* creates no record and leaves current_path, the counters and the section *)
(* map unchanged, so extract_toc builds for an outline what it builds for  *)
(* the outline with all such entries removed.                              *)
(***************************************************************************)
C20_DiscardedEntriesLeaveNoTrace ==
    InExtractToc =>
        LET kept == AcceptedEntries
            st == TocAfter(kept, Len(kept), max_level)
        IN  /\ toc_structure = st.toc_structure
            /\ current_path = st.current_path
            /\ section_counters = st.section_counters
            /\ \A k \in 1..Len(toc_structure) : toc_structure[k].level <= max_level

\* a discarded entry between a section and its child: the child's path
\* still starts with the section's title
C20_Witness ==
    /\ InExtractToc
    /\ Len(toc) = 3
    /\ toc[1].level = 1
    /\ toc[2] = TooDeepEntry
    /\ toc[3].level = 2
    /\ Len(toc_structure) = 2
    /\ toc_structure[2].full_path = <<toc[1].title, toc[3].title>>
    /\ toc_structure[2].id = <<1, 1>>

(***************************************************************************)
(* The images of a document and the image-location map.                    *)
(***************************************************************************)
ImagesDone == pc = "done" /\ doc_images # <<>>

\* the images of page page_num that _save_image saves
SavedIdx(page_num) ==
    {i \in DOMAIN doc_images[page_num + 1] :
        doc_images[page_num + 1][i].state = "good"}

FailedIdx(page_num) ==
    {i \in DOMAIN doc_images[page_num + 1] :
        doc_images[page_num + 1][i].state \in {"undecodable", "unwritable"}}

EntriesOf(page_num) ==
    IF page_num \in DOMAIN image_locations THEN image_locations[page_num]
    ELSE <<>>

\* the number of entries of the map, under the key of the page, for image i
EntryCount(page_num, i) ==
    Cardinality({k \in DOMAIN EntriesOf(page_num) :
                    EntriesOf(page_num)[k] = ImageFileName(page_num, i - 1, "png")})

\* C15: when extract_images has returned, on every page of the document an
\* image whose decoding or saving failed, and an image below the minimum
\* size, has no entry in the map, every other image has exactly one entry
\* under the key of its page and its file in the image directory, and the
\* map has no other entry and no other key.
C15_ImageFailureIsolated ==
    ImagesDone =>
        /\ DOMAIN image_locations \subseteq 0..(Len(doc_images) - 1)
        /\ \A page_num \in 0..(Len(doc_images) - 1) :
              /\ \A i \in DOMAIN doc_images[page_num + 1] :
                    /\ EntryCount(page_num, i) =
                           IF i \in SavedIdx(page_num) THEN 1 ELSE 0
                    /\ ImageFileName(page_num, i - 1, "png") \in image_dir
                           <=> i \in SavedIdx(page_num)
              /\ Len(EntriesOf(page_num)) = Cardinality(SavedIdx(page_num))

\* a failed image is followed by a saved one on its page and on a later page
C15_Witness ==
    /\ ImagesDone
    /\ \E page_num \in 0..(Len(doc_images) - 1) :
          \E i \in FailedIdx(page_num) :
             /\ \E j \in SavedIdx(page_num) : j > i /\ EntryCount(page_num, j) = 1
             /\ \E later \in (page_num + 1)..(Len(doc_images) - 1) :
                   \E j \in SavedIdx(later) : EntryCount(later, j) = 1

(***************************************************************************)
(* Vocabulary of the claims on main and convert.                           *)
(***************************************************************************)
CliOk == cli.pdf_is_file /\ cli.config = "loaded"

Exited == pc = "exited"

\* a call of the conversion raised an exception
ConversionRaised == \E k \in 1..Len(events) : events[k].raised

\* C14: an exception raised by a call of the conversion is caught by
\* convert, which returns False: the exception never reaches the top of the
\* program.  The process exits with code 1 when the input file is missing or
\* the configuration cannot be loaded, without starting the conversion, and
\* when convert returned False; it exits with code 0 exactly when convert
\* returned True, and convert returns True only when no call raised.
C14_ExitCode ==
    /\ ConversionRaised =>
          /\ pc \in {"convert_returned", "exited"}
          /\ success = <<FALSE>>
    /\ success = <<TRUE>> => ~ConversionRaised
    /\ ~Exited => exit_code = <<>>
    /\ Exited =>
          /\ exit_code \in {<<0>>, <<1>>}
          /\ exit_code = <<0>> <=> success = <<TRUE>>
          /\ success = <<FALSE>> => exit_code = <<1>>
          /\ (~cli.pdf_is_file \/ cli.config = "unloadable") =>
                exit_code = <<1>> /\ events = <<>> /\ success = <<>>

\* writing the chunk files of the second section raised, after those of the
\* first section were written, and the process exited with code 1
C14_Witness ==
    /\ Exited
    /\ CliOk
    /\ events # <<>>
    /\ events[Len(events)] = Event("write_chunk_files", 2, TRUE)
    /\ \E k \in 1..Len(events) : events[k] = Event("write_chunk_files", 1, FALSE)
    /\ success = <<FALSE>>
    /\ exit_code = <<1>>

\* C16: the conversion of a document without outline, when no call of a
\* library or of the file system fails, returns True after writing the
\* chunk files chunk_NNN.md.
C16_NoOutlineConverts ==
    (Exited /\ CliOk /\ fault = NoFault /\ toc_structure = <<>>) =>
        /\ success = <<TRUE>>
        /\ \E k \in 1..Len(events) : events[k] = Event("write_chunks", 0, FALSE)

\* the stage of a call: decode 1, structure outline 2, resolve ranges 3,
\* assemble 4, split 5, write 6; 0 for a call that belongs to no stage
StageOf(call) ==
    CASE call = "extract_images" -> 1
      [] call \in {"extract_toc", "save_toc_structure"} -> 2
      [] call = "determine_section_pages" -> 3
      [] call \in {"extract_section_text", "format_text"} -> 4
      [] call = "split_into_chunks" -> 5
      [] call \in {"write_chunk_files", "write_chunks", "write_full_file"} -> 6
      [] OTHER -> 0

EventPairs == {ab \in (1..Len(events)) \X (1..Len(events)) : ab[1] < ab[2]}

\* C19: every stage runs to completion before the next begins: no call of
\* a stage comes after a call of a later stage.  In particular no chunk file
\* of a section is written before the range of every section is resolved.
C19_StagesRunToCompletion ==
    \A ab \in EventPairs :
        LET x == StageOf(events[ab[1]].call)
            y == StageOf(events[ab[2]].call)
        IN  (x > 0 /\ y > 0) => x <= y

\* the place of a call in the conversion of one section
PlaceInSection(call) ==
    CASE call = "determine_section_pages" -> 1
      [] call = "create_section_dir" -> 2
      [] call = "extract_section_text" -> 3
      [] call = "format_text" -> 4
      [] call = "split_into_chunks" -> 5
      [] call = "write_chunk_files" -> 6
      [] OTHER -> 0

\* the place of a call that comes before the first section
PlaceBeforeSections(call) ==
    CASE call = "mkdir" -> 1
      [] call = "setup_image_dir" -> 2
      [] call = "extract_images" -> 3
      [] call = "extract_toc" -> 4
      [] call = "save_toc_structure" -> 5
      [] call = "extract_pages" -> 6
      [] OTHER -> 0

\* C19, amended: in the conversion of a document with an outline the
\* images are extracted, the outline is structured and saved and the pages
\* are decoded, in this order, before the first section; then the sections
\* are converted one after the other in the order of the traversal list,
\* each through resolve range, assemble, split, write in this order, every
\* call of a section coming before every call of the next section; the
\* full file is written after the last section.
C19_SectionsOneAfterTheOther ==
    toc_structure # <<>> =>
        \A ab \in EventPairs :
            LET x == events[ab[1]]
                y == events[ab[2]]
            IN  /\ (x.section > 0 /\ y.section > 0) =>
                      \/ x.section < y.section
                      \/ /\ x.section = y.section
                         /\ PlaceInSection(x.call) < PlaceInSection(y.call)
                /\ (x.section > 0 /\ y.section = 0) =>
                      y.call = "write_full_file"
                /\ (x.section = 0 /\ y.section > 0) =>
                      PlaceBeforeSections(x.call) > 0
                /\ (x.section = 0 /\ y.section = 0) =>
                      \/ y.call = "write_full_file" /\ x.call # "write_full_file"
                      \/ /\ PlaceBeforeSections(x.call) > 0
                         /\ PlaceBeforeSections(x.call) < PlaceBeforeSections(y.call)

\* two sections were converted: the chunk files of the first were written
\* before the range of the second was resolved
C19_Witness ==
    /\ Exited
    /\ success = <<TRUE>>
    /\ Len(sorted_sections) >= 2
    /\ \E ab \in EventPairs :
          /\ events[ab[1]] = Event("write_chunk_files", 1, FALSE)
          /\ events[ab[2]] = Event("determine_section_pages", 2, FALSE)
    /\ events[Len(events)] = Event("write_full_file", 0, FALSE)

(***************************************************************************)
(* Vocabulary of the claims on the packing of paragraphs.                  *)
(***************************************************************************)
Paragraphs == SplitParagraphs(text)

\* the running size of a chunk: the lengths of its paragraphs added up
RECURSIVE RunningSize(_)
RunningSize(group) ==
    IF group = <<>> THEN 0 ELSE Len(group[1]) + RunningSize(Tail(group))

\* the first n paragraphs packed greedily: the next paragraph joins the
\* current chunk unless the running size plus its length exceeds size
RECURSIVE GreedyGroups(_, _, _)
GreedyGroups(paragraphs, n, size) ==
    IF n = 0 THEN <<>>
    ELSE LET groups == GreedyGroups(paragraphs, n - 1, size)
             para == paragraphs[n]
         IN  IF groups = <<>> THEN <<<<para>>>>
             ELSE IF RunningSize(groups[Len(groups)]) + Len(para) > size
             THEN Append(groups, <<para>>)
             ELSE [groups EXCEPT ![Len(groups)] = Append(@, para)]

GreedyChunks ==
    LET groups == GreedyGroups(Paragraphs, Len(Paragraphs), chunk_size)
    IN  [k \in 1..Len(groups) |-> ParagraphChunk(groups[k])]

\* C21: with overlap_chars = 0 and no paragraph longer than max_chars, for
\* every max_chars, the chunks are the paragraphs packed greedily: a chunk
\* ends between two paragraphs exactly when the running size plus the length
\* of the next paragraph exceeds max_chars.
C21_GreedyPacking ==
    (pc = "done" /\ overlap = 0 /\ NoLongParagraph) => chunks = GreedyChunks

(***************************************************************************)
(* Vocabulary of the claims on the overlap.                                *)
(***************************************************************************)
\* the last n characters of s, or all of s when it is shorter
LastOrAll(s, n) == SubSeq(s, IF Len(s) > n THEN Len(s) - n + 1 ELSE 1, Len(s))

OverlapDone == pc = "done" /\ overlap > 0

KeepsNumberAndFirst ==
    /\ Len(chunks) = Len(original_chunks)
    /\ original_chunks # <<>> => chunks[1] = original_chunks[1]

LongSentences ==
    LET paragraphs == Paragraphs
    IN  {kj \in UNION {{<<k, j>> : j \in 1..Len(SplitSentences(paragraphs[k]))} :
                          k \in {q \in 1..Len(paragraphs) :
                                    Len(paragraphs[q]) > chunk_size}} :
            Len(SplitSentences(paragraphs[kj[1]])[kj[2]]) > chunk_size}

SentenceAt(kj) == SplitSentences(Paragraphs[kj[1]])[kj[2]]

\* C23: a sentence longer than max_chars of a paragraph longer than
\* max_chars is a chunk of its own: as many chunks are, after the overlap
\* text and marker put before them are removed, exactly this sentence as
\* the long paragraphs hold long sentences equal to it.
C23_LongSentenceOwnChunk ==
    pc = "done" =>
        LET stripped == StrippedChunks
        IN  \A kj \in LongSentences :
               Cardinality({i \in 1..Len(stripped) : stripped[i] = SentenceAt(kj)})
                 = Cardinality({other \in LongSentences :
                                   SentenceAt(other) = SentenceAt(kj)})

\* 'aa. a' with max_chars = 2: the long sentence 'aa.' is followed by the
\* short sentence 'a'
C23_Witness ==
    /\ pc = "done"
    /\ chunk_size = 2
    /\ overlap = 0
    /\ text = <<"a", "a", ".", " ", "a">>
    /\ <<1, 1>> \in LongSentences
    /\ chunks = <<<<"a", "a", ".">>, <<"a">>>>

(***************************************************************************)
(* Vocabulary of the claim on the order of the image references.           *)
(***************************************************************************)
\* the images of the pages of index p .. stop - 1 in the order the loop of
\* lines 115-121 takes them: pages ascending, the images of a page in the
\* order of the list
RECURSIVE ProcessedImages(_, _)
ProcessedImages(p, stop) ==
    IF p >= stop THEN <<>>
    ELSE (IF p \in DOMAIN image_locations THEN image_locations[p] ELSE <<>>)
             \o ProcessedImages(p + 1, stop)

Reverse(s) == [k \in 1..Len(s) |-> s[Len(s) + 1 - k]]

\* the images of the pages numbered start_page .. end_page
SectionImages == ProcessedImages(section_range[1] - 1, section_range[2])

\* C24: the text of a section is the references of the images of its page
\* range, in the reverse of the order in which they are processed (the
\* image processed last first), followed by the extracted text.
C24_ImagesReversedBeforeText ==
    pc = "done" =>
        section_text =
            Join([k \in 1..Len(SectionImages) |->
                     FigureRef(Reverse(SectionImages)[k])], <<>>)
            \o ExtractSectionText(pages, section_range[1], section_range[2],
                                  margins)

\* two images on the first page, one on the second, and a text run
C24_Witness ==
    /\ pc = "done"
    /\ section_range = <<1, 2>>
    /\ Len(pages) = 2
    /\ pages[1].elements = <<Word>>
    /\ SectionImages = <<"image_p1_1.png", "image_p1_2.png", "image_p2_1.png">>
    /\ section_text = FigureRef("image_p2_1.png") \o FigureRef("image_p1_2.png")
                          \o FigureRef("image_p1_1.png") \o <<"a">>

(***************************************************************************)
(* Vocabulary of the claim on the full file.                               *)
(***************************************************************************)
FullFile == File("full_file", 0)

\* the events of the calls that raised while a section was processed
FailedSectionCalls ==
    {k \in 1..Len(events) : events[k].raised /\ events[k].section > 0}

\* C25: the full file is written only when keep_full_file is set and only
\* after the chunk files of every section; when a call of the processing of
\* a section raised, the full file is not written and convert returns
\* False, while the images, structure.yaml and the chunk files of the
\* sections before the failing one are written.
C25_FullFileLast ==
    /\ FullFile \in files =>
          /\ cli.keep_full_file
          /\ IF toc_structure # <<>>
             THEN \A i \in 1..Len(sorted_sections) : File("chunks", i) \in files
             ELSE File("chunks", 0) \in files
    /\ \A k \in FailedSectionCalls :
          /\ FullFile \notin files
          /\ success = <<FALSE>>
          /\ image_dir = ExtractImagesFrom(doc_images, 0, 0, <<>>, {}).image_dir
          /\ File("structure.yaml", 0) \in files
          /\ \A j \in 1..(events[k].section - 1) : File("chunks", j) \in files

\* with keep_full_file set, formatting the text of the second section
\* raised: the image, structure.yaml and the chunk files of the first
\* section are there, the full file is not
C25_Witness ==
    /\ Exited
    /\ cli.keep_full_file
    /\ events # <<>>
    /\ events[Len(events)] = Event("format_text", 2, TRUE)
    /\ image_dir # {}
    /\ files = {File("structure.yaml", 0), File("chunks", 1)}
    /\ exit_code = <<1>>

(***************************************************************************)
(* C28: in a conversion, where determine_section_pages is given the        *)
(* traversal sorted by (page, level) and the section's own index, the end  *)
(* page chosen from the child probe, the sibling probe and the fallback is *)
(* never before the start page: the clamp is never taken.                  *)
(***************************************************************************)
C28_ClampNeverTaken ==
    pc = "done" =>
        \A i \in 1..Len(sorted_sections) :
            EndPageUnclamped(sorted_sections[i], sorted_sections, i)
                >= sorted_sections[i].page

\* the sort has moved a section, and a section ends on its own start page
\* without the clamp
C28_Witness ==
    /\ pc = "done"
    /\ sorted_sections # toc_structure
    /\ \E i \in 1..Len(sorted_sections) :
          /\ EndPageUnclamped(sorted_sections[i], sorted_sections, i)
                = sorted_sections[i].page
          /\ section_pages[i] = <<sorted_sections[i].page, sorted_sections[i].page>>

\* the record of the section map with the key id
RecordAt(id) ==
    toc_structure[CHOOSE n \in 1..Len(toc_structure) : toc_structure[n].id = id]

(***************************************************************************)
(* C29: for a well-formed outline every record's id has exactly `level`    *)
(* components, the section map holds one record per accepted entry, and    *)
(* for every record of level > 1 the id without its last component is the  *)
(* key of the record of its parent entry, whose full_path is the record's  *)
(* full_path without its last title.                                       *)
(***************************************************************************)
C29_IdsMirrorTheTree ==
    (InExtractToc /\ WellFormedOutline) =>
        LET recs == EntryRecords
        IN  /\ Len(toc_structure) = Cardinality(AcceptedIdx)
            /\ \A k \in AcceptedIdx :
                  /\ recs[k] \in Range(toc_structure)
                  /\ Len(recs[k].id) = recs[k].level
                  /\ recs[k].level > 1 =>
                        /\ \E n \in 1..Len(toc_structure) :
                              toc_structure[n].id = ButLast(recs[k].id)
                        /\ RecordAt(ButLast(recs[k].id)) = recs[ParentIdx(k)]
                        /\ recs[ParentIdx(k)].full_path = ButLast(recs[k].full_path)

\* a well-formed outline with two children under the second top-level
\* section: the second child's id is that of its parent and one number more
C29_Witness ==
    /\ InExtractToc
    /\ WellFormedOutline
    /\ Len(toc) = 3
    /\ AcceptedIdx = 1..3
    /\ toc[1].level = 1
    /\ toc[2].level = 2
    /\ toc[3].level = 2
    /\ toc_structure[3].id = <<1, 2>>
    /\ toc_structure[3].full_path = <<toc[1].title, toc[3].title>>

(***************************************************************************)
(* C30: for a well-formed outline whose pages strictly increase in outline *)
(* order the converter's resolver gives every section the start and end    *)
(* page that the prototype get_section_pages gives it: the end page is the *)
(* page of the section that follows it in the outline, and start_page + 10 *)
(* for the last section.                                                   *)
(***************************************************************************)
C30_ResolverRefinesPrototype ==
    (pc = "done" /\ WellFormedOutline /\ PagesStrictlyIncrease) =>
        LET prototype == GetSectionPages(toc_structure)
            acc == AcceptedEntries
        IN  /\ Len(prototype) = Len(section_pages)
            /\ Len(acc) = Len(section_pages)
            /\ \A i \in 1..Len(section_pages) :
                  /\ prototype[i].id = sorted_sections[i].id
                  /\ section_pages[i]
                        = <<prototype[i].start_page, prototype[i].end_page>>
                  /\ section_pages[i]
                        = <<acc[i].page,
                            IF i < Len(acc) THEN acc[i + 1].page
                            ELSE acc[i].page + FallbackSpan>>

\* a section with a child and a later sibling, the child with a later cousin
\* only, and the last section with the fallback span
C30_Witness ==
    /\ pc = "done"
    /\ WellFormedOutline
    /\ PagesStrictlyIncrease
    /\ Len(toc) = 3
    /\ AcceptedIdx = 1..3
    /\ toc[1].level = 1
    /\ toc[2].level = 2
    /\ toc[3].level = 1
    /\ section_pages = <<<<1, 2>>, <<2, 3>>, <<3, 3 + FallbackSpan>>>>

(***************************************************************************)
(* C27: with max_newlines = 2 the text format_text returns has no run of   *)
(* three or more consecutive newlines, for every input, and format_text    *)
(* applied to it returns it unchanged.                                     *)
(***************************************************************************)
C27_NewlinesLimited ==
    /\ \A k \in 1..Len(formatted) :
          \A i \in 1..Len(formatted[k]) :
              NewlineRun(Drop(formatted[k], i - 1)) < CollapsedRunLen
    /\ Len(formatted) >= 2 => formatted[2] = formatted[1]

(***************************************************************************)
(* Vocabulary of the claims on the order of the sections: the outputs of   *)
(* the run of the code, which takes the sections one after the other in    *)
(* the order of sorted_sections.                                           *)
(***************************************************************************)
InOrderTexts ==
    [i \in 1..Len(sorted_sections) |->
        SectionTextOf(sorted_sections, i, pages, image_locations, margins)]

RECURSIVE InOrderChunkFilesUpTo(_)
InOrderChunkFilesUpTo(n) ==
    IF n = 0 THEN {}
    ELSE SectionChunksWritten(InOrderChunkFilesUpTo(n - 1), toc_structure,
                              sorted_sections, n, InOrderTexts[n],
                              chunk_size, overlap)

InOrderChunkFiles == InOrderChunkFilesUpTo(Len(sorted_sections))

InOrderFullFile == Join(InOrderTexts, <<Newline, Newline>>)

\* no step of the loop changes the section map, the traversal list, the
\* page list or the image map
SectionInputsReadOnly ==
    UNCHANGED <<toc_structure, sorted_sections, pages, image_locations>>

(***************************************************************************)
(* C26 (as stated): processing a section changes neither the section map,  *)
(* nor the traversal list, nor the page list, nor the image map, and       *)
(* whatever the order or interleaving in which the sections are processed, *)
(* the chunk files and the full file of the conversion are those of the    *)
(* run that takes the sections in order.                                   *)
(***************************************************************************)
C26_OutputsOrderIndependent ==
    [][/\ SectionInputsReadOnly
       /\ pc' = "done" =>
             /\ chunk_files' = InOrderChunkFiles
             /\ full_file'.content = InOrderFullFile]_vars

(***************************************************************************)
(* C26 (amended): processing a section changes neither the section map,    *)
(* nor the traversal list, nor the page list, nor the image map, and       *)
(* whatever the order or interleaving, the chunk files of the conversion   *)
(* are those of the run that takes the sections in order.  The full file   *)
(* holds the text of every section once, in the order in which the         *)
(* sections appended to formatted_text, and is the full file of the run in *)
(* order exactly when that is the order of the traversal list.             *)
(***************************************************************************)
C26_ChunkFilesOrderIndependent ==
    [][/\ SectionInputsReadOnly
       /\ pc' = "done" =>
             /\ chunk_files' = InOrderChunkFiles
             /\ Len(formatted_text') = Len(InOrderTexts)
             /\ \A i \in 1..Len(InOrderTexts) :
                   Cardinality({k \in 1..Len(formatted_text') :
                                   formatted_text'[k] = InOrderTexts[i]}) = 1
             /\ full_file'.content = Join(formatted_text', <<Newline, Newline>>)
             /\ (full_file'.content = InOrderFullFile)
                   <=> (formatted_text' = InOrderTexts)]_vars

\* three sections, two of them under the first, processed in another order
\* than the traversal list: the chunk files are those of the run in order,
\* the full file is not
C26_Witness ==
    /\ pc = "done"
    /\ Len(sorted_sections) = 3
    /\ sorted_sections[2].id = <<1, 1>>
    /\ sorted_sections[3].id = <<1, 2>>
    /\ full_file.written
    /\ formatted_text # InOrderTexts
    /\ chunk_files = InOrderChunkFiles
    /\ chunk_files # {}
    /\ full_file.content # InOrderFullFile
====
